---- MODULE Spec2Model ----
(***************************************************************************)
(* Verification model of the embedded firmware foundation:                 *)
(*   - Reset_Handler and the vector table       (src/src/startup.cpp)      *)
(*   - System core and the SysTick time base    (src/src/system.cpp)       *)
(*   - CriticalSection interrupt-mask guard     (src/include/types.hpp)    *)
(*   - UART interrupt-driven transmit           (src/hal/uart.hpp)         *)
(*   - GPIO pins and the EXTI dispatch table    (src/hal/gpio.hpp)         *)
(*   - the applications      (src/src/main.cpp, src/examples/blinky.cpp)   *)
(* The HAL headers declare the classes without bodies; the UART and GPIO    *)
(* behaviour is the one the design document prescribes for them.           *)
(* The specifications share the variables below:                           *)
(*   SpecBoot    the reset sequence on a byte-addressed RAM                *)
(*   SpecVectors link-time resolution of the weak handlers and exception   *)
(*               entry through g_pfnVectors                                *)
(*   SpecSystem  foreground calls of the System API interleaved with the   *)
(*               SysTick interrupt                                         *)
(*   SpecCritical CriticalSection guards and direct interrupt masking      *)
(*               around tick reads and waits, interleaved with SysTick     *)
(*   SpecDelay   delayMs against a tick source that advances at most one   *)
(*               tick per loop iteration                                   *)
(*   SpecSleep   sleep and deepSleep from any value of SCR                 *)
(*   SpecUart    transmitIT calls interleaved with the TX-empty interrupt  *)
(*   SpecUartFill transmitIT calls with no TX interrupt serviced            *)
(*   SpecExti    two GPIO objects, the EXTI dispatch table and edges       *)
(*   SpecLock    configuration, level and lock calls on one pin            *)
(*   SpecBlinky  main of blinky.cpp, the button callback and SysTick       *)
(*   SpecMain    main of main.cpp and SysTick                              *)
(***************************************************************************)
EXTENDS Integers, Naturals, Sequences, FiniteSets, TLC

(***************************************************************************)
(* Bounds of the model                                                     *)
(***************************************************************************)
MaxDataBytes == 8
MaxBssBytes == 8
MaxCtors == 2
MaxIsr == 3
MaxNest == 2
MaxDelayMs == 2
MaxMockTicks == 40
MaxTxBytes == 6
MaxTxLen == 3
MaxExtiCalls == 2

(***************************************************************************)
(* State                                                                   *)
(***************************************************************************)
VARIABLES
    \* ---- Reset_Handler (startup.cpp) ----
    bpc,        \* position of Reset_Handler
    layout,     \* linker symbols: byte addresses _sidata,_sdata,_edata,_sbss,_ebss
    flash,      \* the load image, a sequence of bytes starting at _sidata
    ram,        \* RAM, byte addressed
    src,        \* local src (byte offset into the load image)
    dst,        \* local dst (byte address in RAM)
    nPre,       \* length of __preinit_array
    nInit,      \* length of __init_array
    p,          \* loop index of the constructor loops
    ctorLog,    \* constructors called so far, in call order
    nCopied,    \* word stores made by the data-copy loop
    nZeroed,    \* word stores made by the zero-fill loop
    mainCalls,  \* number of times main was called since reset
    \* ---- vector table and exception entry (startup.cpp) ----
    overridden, \* handler symbols the application defines (strong symbols)
    vtable,     \* g_pfnVectors after linking: what each slot points to
    vsp,        \* stack pointer loaded at reset
    active,     \* number of the exception being serviced, 0 before reset
    fetched,    \* symbol named in the slot the CPU fetched
    entered,    \* code the CPU entered through that slot
    \* ---- System, SysTick and CriticalSection (system.cpp, types.hpp) ----
    pc,          \* position of the foreground code
    s_tickCount, \* System::s_tickCount, a u32 held as <<high 16, low 16>>
    primask,     \* PRIMASK: 1 = maskable interrupts disabled
    guards,      \* m_primask of the live CriticalSection objects, innermost last
    regs,        \* memory-mapped registers: address -> last value written
    wlog,        \* register writes made by the current (or last) System call
    status,      \* Status returned by the last call that returns one
    ticksRet,    \* value returned by the last getTicks()
    dm_start,    \* delayMs: local start, <<>> before the first call
    dm_ms,       \* delayMs: argument ms
    cycles,      \* delayUs: local cycles
    du_us,       \* delayUs: argument us, <<>> outside the call
    idBuf,       \* getUniqueId: the caller's id[3]
    isrCount,    \* SysTick_Handler invocations so far
    prevRead,    \* the getTicks() result before the last one
    kBetween,    \* SysTick_Handler invocations between those two reads
    ticksSince,  \* SysTick_Handler invocations since the last getTicks()
    csBefore,    \* PRIMASK before the outermost live (or last) guard was built
    csDepth,     \* deepest nesting reached under that outermost guard
    dmTicks,     \* ticks since delayMs read start
    iterTicks,   \* ticks since delayMs last read s_tickCount
    \* ---- UART interrupt-driven transmit (hal/uart.hpp) ----
    m_txBuffer,   \* UART::m_txBuffer, index 0 .. UART_BUFFER_SIZE - 1
    m_txHead,     \* UART::m_txHead, advanced by transmitIT
    m_txTail,     \* UART::m_txTail, advanced by the TX interrupt handler
    txeie,        \* TX-empty interrupt enable
    m_txCallback, \* UART::m_txCallback, "nullptr" when none
    txStatus,     \* Status returned by the last transmitIT
    wire,         \* bytes written to the data register, in order
    accepted,     \* bytes of the transmitIT calls that returned Ok, in order
    cbFired,      \* the completion callback ran since the last accepted call
    \* ---- GPIO and the EXTI dispatch table (hal/gpio.hpp) ----
    m_pin,        \* GPIO::m_pin of each object
    m_mode,       \* GPIO::m_mode of each object
    pull,         \* pull configuration of each object's pin
    speed,        \* output speed of each object's pin
    af,           \* alternate function number of each object's pin
    locked,       \* the configuration lock of each object's pin
    odr,          \* output latch of each object's pin
    gStatus,      \* Status returned by the last GPIO call that returns one
    readRet,      \* PinState returned by the last read()
    gOp,          \* the last GPIO call: <<name, object>>
    extiTable,    \* EXTI dispatch table: line -> <<callback, context>> or <<>>
    exticr,       \* port routed to each EXTI line, "none" when unrouted
    imr,          \* EXTI lines whose interrupt is unmasked
    pr,           \* EXTI lines whose pending bit is set
    fired,        \* EXTI line of the last edge, -1 before the first
    isrLog,       \* what the interrupt taken for that edge did, in order
    nCalls,       \* callback invocations so far
    \* ---- the applications (main.cpp, examples/blinky.cpp) ----
    mpc,           \* position of main
    mStatus,       \* Status returned to main by System::init()
    led,           \* the GPIO object led: <<>> before its constructor ran
    button,        \* the GPIO object button of blinky, <<>> before its constructor
    uart,          \* the UART object debug: "none", "ready" or "failed"
    buttonPressed, \* blinky: static volatile bool buttonPressed
    blinkRate,     \* blinky: static u32 blinkRate
    rateIndex,     \* blinky: local u8 rateIndex
    counter,       \* main.cpp: local u32 counter, held as <<high 16, low 16>>
    buf,           \* local char buf[], index 0 .. size - 1
    temp,          \* local char temp[], index 0 .. size - 1
    idx,           \* local int idx
    tempIdx,       \* local int tempIdx
    rate,          \* the u32 being formatted (rate in blinky, ticks in main.cpp)
    fmtWrites,     \* stores made for the current message: <<array, index, char>>
    printed,       \* characters of the last formatted message handed to print
    waitMs,        \* argument of the delayMs call main is in
    waited,        \* s_tickCount - start of that call
    owed,          \* blinky: a press happened and no rate change followed yet
    iters,         \* main.cpp: counter++ executed by the main loop so far
    nToggles,      \* main.cpp: led.toggle() calls made by the main loop
    nPrints        \* main.cpp: heartbeat messages printed

bootVars == <<bpc, layout, flash, ram, src, dst, nPre, nInit, p, ctorLog,
              nCopied, nZeroed, mainCalls>>

vecVars == <<overridden, vtable, vsp, active, fetched, entered>>

sysVars == <<pc, s_tickCount, primask, guards, regs, wlog, status, ticksRet,
             dm_start, dm_ms, cycles, du_us, idBuf, isrCount, prevRead, kBetween,
             ticksSince, csBefore, csDepth, dmTicks, iterTicks>>

uartVars == <<m_txBuffer, m_txHead, m_txTail, txeie, m_txCallback, txStatus,
              wire, accepted, cbFired>>

gpioVars == <<m_pin, m_mode, pull, speed, af, locked, odr, gStatus, readRet,
              gOp, extiTable, exticr, imr, pr, fired, isrLog, nCalls>>

appVars == <<mpc, mStatus, led, button, uart, buttonPressed, blinkRate,
             rateIndex, counter, buf, temp, idx, tempIdx, rate, fmtWrites,
             printed, waitMs, waited, owed, iters, nToggles, nPrints>>

vars == <<bootVars, vecVars, sysVars, uartVars, gpioVars, appVars>>

\* what the actions of one part of the model leave alone
notBoot == <<vecVars, sysVars, uartVars, gpioVars, appVars>>
notVec == <<bootVars, sysVars, uartVars, gpioVars, appVars>>
notSys == <<bootVars, vecVars, uartVars, gpioVars, appVars>>
notUart == <<bootVars, vecVars, sysVars, gpioVars, appVars>>
notGpio == <<bootVars, vecVars, sysVars, uartVars, appVars>>
notApp == <<bootVars, vecVars, sysVars, uartVars, gpioVars>>

(***************************************************************************)
(* Reset_Handler                                                           *)
(***************************************************************************)
RamBytes == MaxDataBytes + MaxBssBytes + 8

AlignUp4(n) == ((n + 3) \div 4) * 4

\* Load images: the bytes found in flash from _sidata on.  The handler reads
\* whole words, so each image is longer than the longest data section.
FlashImages ==
    { [i \in 1..(MaxDataBytes + 4) |-> IF i = 1 THEN 222 ELSE IF i = 2 THEN 173
                                  ELSE IF i = 3 THEN 190 ELSE IF i = 4 THEN 239
                                  ELSE i],
      [i \in 1..(MaxDataBytes + 4) |-> (7 * i) % 256] }

\* RAM content is arbitrary at reset; every byte holds the same fill value.
RamFill == {0, 170}

\* Placement of the sections: .data at the start of RAM, .bss behind it on
\* the next word boundary.
Layouts ==
    { [sidata |-> 0, sdata |-> 0, edata |-> dl,
       sbss |-> AlignUp4(dl), ebss |-> AlignUp4(dl) + bl] :
         dl \in 0..MaxDataBytes, bl \in 0..MaxBssBytes }

\* *dst = word: a 32-bit store writes the four bytes dst .. dst+3
StoreWord(mem, addr, b0, b1, b2, b3) ==
    [a \in DOMAIN mem |->
        IF a = addr THEN b0
        ELSE IF a = addr + 1 THEN b1
        ELSE IF a = addr + 2 THEN b2
        ELSE IF a = addr + 3 THEN b3
        ELSE mem[a]]

BootVarsInit ==
    /\ bpc = "copy"
    /\ layout \in Layouts
    /\ flash \in FlashImages
    /\ \E f \in RamFill : ram = [a \in 0..(RamBytes - 1) |-> f]
    /\ src = layout.sidata
    /\ dst = layout.sdata
    /\ nPre \in 0..MaxCtors
    /\ nInit \in 0..MaxCtors
    /\ p = 0
    /\ ctorLog = <<>>
    /\ nCopied = 0
    /\ nZeroed = 0
    /\ mainCalls = 0

\* Mutant of CopyData: the source pointer is not advanced (*dst++ = *src)
CopyData_NoSrcAdvance ==
    /\ bpc = "copy"
    /\ dst < layout.edata
    /\ ram' = StoreWord(ram, dst, flash[src + 1], flash[src + 2],
                        flash[src + 3], flash[src + 4])
    /\ dst' = dst + 4
    /\ nCopied' = nCopied + 1
    /\ UNCHANGED <<bpc, layout, flash, src, nPre, nInit, p, ctorLog, nZeroed, mainCalls>>
    /\ UNCHANGED notBoot

\* while (dst < &_edata) { *dst++ = *src++; }
CopyData ==
    /\ bpc = "copy"
    /\ dst < layout.edata
    /\ ram' = StoreWord(ram, dst, flash[src + 1], flash[src + 2],
                        flash[src + 3], flash[src + 4])
    /\ dst' = dst + 4
    /\ src' = src + 4
    /\ nCopied' = nCopied + 1
    /\ UNCHANGED <<bpc, layout, flash, nPre, nInit, p, ctorLog, nZeroed, mainCalls>>
    /\ UNCHANGED notBoot

\* loop exit, then dst = &_sbss
CopyDone ==
    /\ bpc = "copy"
    /\ ~(dst < layout.edata)
    /\ dst' = layout.sbss
    /\ bpc' = "bss"
    /\ UNCHANGED <<layout, flash, ram, src, nPre, nInit, p, ctorLog,
                   nCopied, nZeroed, mainCalls>>
    /\ UNCHANGED notBoot

\* while (dst < &_ebss) { *dst++ = 0; }
ZeroBss ==
    /\ bpc = "bss"
    /\ dst < layout.ebss
    /\ ram' = StoreWord(ram, dst, 0, 0, 0, 0)
    /\ dst' = dst + 4
    /\ nZeroed' = nZeroed + 1
    /\ UNCHANGED <<bpc, layout, flash, src, nPre, nInit, p, ctorLog, nCopied, mainCalls>>
    /\ UNCHANGED notBoot

\* Mutant of ZeroDone: the pre-init array is skipped
ZeroDone_SkipPreinit ==
    /\ bpc = "bss"
    /\ ~(dst < layout.ebss)
    /\ p' = 0
    /\ bpc' = "init"
    /\ UNCHANGED <<layout, flash, ram, src, dst, nPre, nInit, ctorLog,
                   nCopied, nZeroed, mainCalls>>
    /\ UNCHANGED notBoot

\* loop exit of the zero fill
ZeroDone ==
    /\ bpc = "bss"
    /\ ~(dst < layout.ebss)
    /\ p' = 0
    /\ bpc' = "preinit"
    /\ UNCHANGED <<layout, flash, ram, src, dst, nPre, nInit, ctorLog,
                   nCopied, nZeroed, mainCalls>>
    /\ UNCHANGED notBoot

\* for (p = __preinit_array_start; p < __preinit_array_end; ++p) (*p)();
CallPreinit ==
    /\ bpc = "preinit"
    /\ p < nPre
    /\ ctorLog' = Append(ctorLog, <<"preinit", p>>)
    /\ p' = p + 1
    /\ UNCHANGED <<bpc, layout, flash, ram, src, dst, nPre, nInit,
                   nCopied, nZeroed, mainCalls>>
    /\ UNCHANGED notBoot

PreinitDone ==
    /\ bpc = "preinit"
    /\ ~(p < nPre)
    /\ p' = 0
    /\ bpc' = "init"
    /\ UNCHANGED <<layout, flash, ram, src, dst, nPre, nInit, ctorLog,
                   nCopied, nZeroed, mainCalls>>
    /\ UNCHANGED notBoot

\* for (p = __init_array_start; p < __init_array_end; ++p) (*p)();
CallInit ==
    /\ bpc = "init"
    /\ p < nInit
    /\ ctorLog' = Append(ctorLog, <<"init", p>>)
    /\ p' = p + 1
    /\ UNCHANGED <<bpc, layout, flash, ram, src, dst, nPre, nInit,
                   nCopied, nZeroed, mainCalls>>
    /\ UNCHANGED notBoot

InitDone ==
    /\ bpc = "init"
    /\ ~(p < nInit)
    /\ bpc' = "call_main"
    /\ UNCHANGED <<layout, flash, ram, src, dst, nPre, nInit, p, ctorLog,
                   nCopied, nZeroed, mainCalls>>
    /\ UNCHANGED notBoot

\* main();
CallMain ==
    /\ bpc = "call_main"
    /\ mainCalls' = mainCalls + 1
    /\ bpc' = "in_main"
    /\ UNCHANGED <<layout, flash, ram, src, dst, nPre, nInit, p, ctorLog,
                   nCopied, nZeroed>>
    /\ UNCHANGED notBoot

\* main returns to Reset_Handler (an application whose main loops forever
\* stays at "in_main")
MainReturns ==
    /\ bpc = "in_main"
    /\ bpc' = "spin"
    /\ UNCHANGED <<layout, flash, ram, src, dst, nPre, nInit, p, ctorLog,
                   nCopied, nZeroed, mainCalls>>
    /\ UNCHANGED notBoot

\* while (true) { nop }
ResetSpin ==
    /\ bpc = "spin"
    /\ UNCHANGED bootVars
    /\ UNCHANGED notBoot

NextBoot ==
    \/ CopyData \/ CopyDone \/ ZeroBss \/ ZeroDone
    \/ CallPreinit \/ PreinitDone \/ CallInit \/ InitDone
    \/ CallMain \/ MainReturns \/ ResetSpin

\* the parts of the model a specification does not exercise stay parked
VecParked ==
    /\ overridden = {}
    /\ vtable = <<>>
    /\ vsp = "none"
    /\ active = 0
    /\ fetched = "none"
    /\ entered = "none"

SysParked ==
    /\ pc = "off"
    /\ s_tickCount = <<0, 0>>
    /\ primask = 0
    /\ guards = <<>>
    /\ regs = <<>>
    /\ wlog = <<>>
    /\ status = "none"
    /\ ticksRet = <<>>
    /\ dm_start = <<>>
    /\ dm_ms = 0
    /\ cycles = <<0, 0>>
    /\ du_us = <<>>
    /\ idBuf = <<>>
    /\ isrCount = 0
    /\ prevRead = <<>>
    /\ kBetween = 0
    /\ ticksSince = 0
    /\ csBefore = 0
    /\ csDepth = 0
    /\ dmTicks = 0
    /\ iterTicks = 0

UartParked ==
    /\ m_txBuffer = <<>>
    /\ m_txHead = 0
    /\ m_txTail = 0
    /\ txeie = FALSE
    /\ m_txCallback = "nullptr"
    /\ txStatus = "none"
    /\ wire = <<>>
    /\ accepted = <<>>
    /\ cbFired = FALSE

GpioParked ==
    /\ m_pin = <<>>
    /\ m_mode = <<>>
    /\ pull = <<>>
    /\ speed = <<>>
    /\ af = <<>>
    /\ locked = <<>>
    /\ odr = <<>>
    /\ gStatus = "none"
    /\ readRet = "none"
    /\ gOp = <<>>
    /\ extiTable = <<>>
    /\ exticr = <<>>
    /\ imr = {}
    /\ pr = {}
    /\ fired = -1
    /\ isrLog = <<>>
    /\ nCalls = 0

AppParked ==
    /\ mpc = "off"
    /\ mStatus = "none"
    /\ led = <<>>
    /\ button = <<>>
    /\ uart = "none"
    /\ buttonPressed = FALSE
    /\ blinkRate = 0
    /\ rateIndex = 0
    /\ counter = <<0, 0>>
    /\ buf = <<>>
    /\ temp = <<>>
    /\ idx = 0
    /\ tempIdx = 0
    /\ rate = 0
    /\ fmtWrites = <<>>
    /\ printed = <<>>
    /\ waitMs = 0
    /\ waited = 0
    /\ owed = FALSE
    /\ iters = 0
    /\ nToggles = 0
    /\ nPrints = 0

\* the peripherals and the applications no part of a run touches
HalParked == UartParked /\ GpioParked /\ AppParked

InitBoot == BootVarsInit /\ VecParked /\ SysParked /\ HalParked

SpecBoot == InitBoot /\ [][NextBoot]_vars

(***************************************************************************)
(* Properties of Reset_Handler                                             *)
(***************************************************************************)
\* number of 32-bit stores a loop "while (dst < end) *dst++ = ..." makes
\* over a region of n bytes
WordsOf(n) == (n + 3) \div 4

\* the constructors in the order the two arrays list them
ExpectedCtors ==
    [i \in 1..(nPre + nInit) |->
        IF i <= nPre THEN <<"preinit", i - 1>> ELSE <<"init", i - 1 - nPre>>]

C1_OrderInv ==
    /\ nZeroed > 0 => nCopied = WordsOf(layout.edata - layout.sdata)
    /\ Len(ctorLog) > 0 =>
          /\ nCopied = WordsOf(layout.edata - layout.sdata)
          /\ nZeroed = WordsOf(layout.ebss - layout.sbss)
    /\ Len(ctorLog) <= nPre + nInit
    /\ ctorLog = SubSeq(ExpectedCtors, 1, Len(ctorLog))
    /\ mainCalls > 0 =>
          /\ ctorLog = ExpectedCtors
          /\ nCopied = WordsOf(layout.edata - layout.sdata)
          /\ nZeroed = WordsOf(layout.ebss - layout.sbss)

\* C1: Reset_Handler copies .data, then zero-fills .bss, then runs every
\* pre-init constructor in array order, then every init-array constructor,
\* then calls main; once main has returned it spins and changes no state.
C1_ResetOrder ==
    [] C1_OrderInv /\ [][bpc = "spin" => UNCHANGED bootVars]_vars

\* C1 witness: main returned after two data words, two bss words and two
\* constructors of each array were processed
C1_Witness ==
    /\ bpc = "spin"
    /\ nCopied = 2 /\ nZeroed = 2
    /\ nPre = 2 /\ nInit = 2 /\ Len(ctorLog) = 4

WholeWords ==
    /\ (layout.edata - layout.sdata) % 4 = 0
    /\ (layout.ebss - layout.sbss) % 4 = 0

DataMatchesImage ==
    \A a \in layout.sdata..(layout.edata - 1) :
        ram[a] = flash[layout.sidata + (a - layout.sdata) + 1]

BssIsZero == \A a \in layout.sbss..(layout.ebss - 1) : ram[a] = 0

\* C2: with .data and .bss sizes that are whole words, when main is invoked
\* the RAM data region equals the load image, .bss is all zero, and main is
\* invoked exactly once per reset (never again after it returns).
C2_ImageAtMain ==
    /\ mainCalls <= 1
    /\ bpc \in {"in_main", "spin"} => mainCalls = 1
    /\ (mainCalls = 1 /\ WholeWords) => (DataMatchesImage /\ BssIsZero)

\* C2 witness: main was invoked and returned on an image DE AD BE EF ... of
\* two data words with two bss words in RAM that was not zero at reset
C2_Witness ==
    /\ bpc = "spin" /\ mainCalls = 1
    /\ layout.edata - layout.sdata = 8
    /\ layout.ebss - layout.sbss = 8
    /\ flash[1] = 222 /\ ram[0] = 222 /\ ram[3] = 239
    /\ ram[RamBytes - 1] = 170

(***************************************************************************)
(* Vector table, weak handlers and exception entry                         *)
(***************************************************************************)
\* Mutant of g_pfnVectors: one of the four reserved words after UsageFault is
\* missing, so every later vector sits one slot too low
g_pfnVectors_MissingReserved ==
    << "_estack",
       "Reset_Handler", "NMI_Handler", "HardFault_Handler", "MemManage_Handler",
       "BusFault_Handler", "UsageFault_Handler",
       "nullptr", "nullptr", "nullptr",
       "SVC_Handler", "DebugMon_Handler", "nullptr", "PendSV_Handler",
       "SysTick_Handler",
       "WWDG_IRQHandler", "PVD_IRQHandler", "TAMP_STAMP_IRQHandler",
       "RTC_WKUP_IRQHandler", "FLASH_IRQHandler", "RCC_IRQHandler",
       "EXTI0_IRQHandler", "EXTI1_IRQHandler", "EXTI2_IRQHandler",
       "EXTI3_IRQHandler", "EXTI4_IRQHandler",
       "DMA1_Stream0_IRQHandler", "DMA1_Stream1_IRQHandler",
       "DMA1_Stream2_IRQHandler", "DMA1_Stream3_IRQHandler",
       "DMA1_Stream4_IRQHandler", "DMA1_Stream5_IRQHandler",
       "DMA1_Stream6_IRQHandler", "ADC_IRQHandler",
       "nullptr", "nullptr", "nullptr", "nullptr",
       "EXTI9_5_IRQHandler", "TIM1_BRK_TIM9_IRQHandler",
       "TIM1_UP_TIM10_IRQHandler", "nullptr", "nullptr",
       "TIM2_IRQHandler", "TIM3_IRQHandler", "TIM4_IRQHandler",
       "I2C1_EV_IRQHandler", "I2C1_ER_IRQHandler", "I2C2_EV_IRQHandler",
       "I2C2_ER_IRQHandler", "SPI1_IRQHandler", "SPI2_IRQHandler",
       "USART1_IRQHandler", "USART2_IRQHandler", "USART3_IRQHandler",
       "nullptr" >>

\* The initialiser of g_pfnVectors, entry by entry; element k of the sequence
\* is the C array element k - 1
g_pfnVectors ==
    << "_estack",
       "Reset_Handler", "NMI_Handler", "HardFault_Handler", "MemManage_Handler",
       "BusFault_Handler", "UsageFault_Handler",
       "nullptr", "nullptr", "nullptr", "nullptr",
       "SVC_Handler", "DebugMon_Handler", "nullptr", "PendSV_Handler",
       "SysTick_Handler",
       "WWDG_IRQHandler", "PVD_IRQHandler", "TAMP_STAMP_IRQHandler",
       "RTC_WKUP_IRQHandler", "FLASH_IRQHandler", "RCC_IRQHandler",
       "EXTI0_IRQHandler", "EXTI1_IRQHandler", "EXTI2_IRQHandler",
       "EXTI3_IRQHandler", "EXTI4_IRQHandler",
       "DMA1_Stream0_IRQHandler", "DMA1_Stream1_IRQHandler",
       "DMA1_Stream2_IRQHandler", "DMA1_Stream3_IRQHandler",
       "DMA1_Stream4_IRQHandler", "DMA1_Stream5_IRQHandler",
       "DMA1_Stream6_IRQHandler", "ADC_IRQHandler",
       "nullptr", "nullptr", "nullptr", "nullptr",
       "EXTI9_5_IRQHandler", "TIM1_BRK_TIM9_IRQHandler",
       "TIM1_UP_TIM10_IRQHandler", "nullptr", "nullptr",
       "TIM2_IRQHandler", "TIM3_IRQHandler", "TIM4_IRQHandler",
       "I2C1_EV_IRQHandler", "I2C1_ER_IRQHandler", "I2C2_EV_IRQHandler",
       "I2C2_ER_IRQHandler", "SPI1_IRQHandler", "SPI2_IRQHandler",
       "USART1_IRQHandler", "USART2_IRQHandler", "USART3_IRQHandler" >>

\* slot i of the C array (0-based)
VectorAt(i) == g_pfnVectors[i + 1]

NumVectors == Len(g_pfnVectors)

\* the handlers declared weak in startup.cpp
WeakHandlers ==
    { VectorAt(i) : i \in 2..(NumVectors - 1) } \ {"nullptr"}

\* the weak handlers declared with alias("Default_Handler"): all of them but
\* HardFault_Handler, which is declared weak without an alias
WeakAliased == WeakHandlers \ {"HardFault_Handler"}

\* What the linker puts in a slot naming sym when the application defines
\* the symbols in ov: a strong definition wins; a weak alias falls back to
\* Default_Handler; a weak declaration with neither resolves to address 0.
Link(sym, ov) ==
    IF sym \in {"_estack", "Reset_Handler"} THEN sym
    ELSE IF sym = "nullptr" THEN "null"
    ELSE IF sym \in ov THEN sym
    ELSE IF sym \in WeakAliased THEN "Default_Handler"
    ELSE "null"

\* the handler definitions of the two applications of the repository
MainBuild == {"HardFault_Handler", "MemManage_Handler", "BusFault_Handler",
              "UsageFault_Handler", "SysTick_Handler"}
BlinkyBuild == {"SysTick_Handler"}

\* the sets of handlers an application may define: the two applications of
\* the repository and every set of at most two handlers
OverrideSets ==
    {MainBuild, BlinkyBuild, {}}
        \cup { {a, b} : a \in WeakHandlers, b \in WeakHandlers }

\* exceptions that have a vector
Vectored == { n \in 2..(NumVectors - 1) : VectorAt(n) # "nullptr" }

VecVarsInit ==
    /\ overridden \in OverrideSets
    /\ vtable = [i \in 0..(NumVectors - 1) |-> Link(VectorAt(i), overridden)]
    /\ vsp = "none"
    /\ active = 0
    /\ fetched = "none"
    /\ entered = "none"

\* reset: the CPU loads the stack pointer from slot 0 and jumps to slot 1
CpuReset ==
    /\ active = 0
    /\ vsp' = vtable[0]
    /\ active' = 1
    /\ fetched' = VectorAt(1)
    /\ entered' = vtable[1]
    /\ UNCHANGED <<overridden, vtable>>
    /\ UNCHANGED notVec

\* exception n is taken while the reset code or an application handler
\* runs: the CPU jumps through slot n
TakeException(n) ==
    /\ active # 0
    /\ entered \notin {"Default_Handler", "null"}
    /\ active' = n
    /\ fetched' = VectorAt(n)
    /\ entered' = vtable[n]
    /\ UNCHANGED <<overridden, vtable, vsp>>
    /\ UNCHANGED notVec

\* an application handler returns to the interrupted code
HandlerReturn ==
    /\ active >= 2
    /\ entered \in overridden
    /\ active' = 1
    /\ fetched' = VectorAt(1)
    /\ entered' = vtable[1]
    /\ UNCHANGED <<overridden, vtable, vsp>>
    /\ UNCHANGED notVec

\* Default_Handler: while (true) { nop }
Default_Handler ==
    /\ entered = "Default_Handler"
    /\ UNCHANGED vecVars
    /\ UNCHANGED notVec

NextVectors ==
    \/ CpuReset
    \/ \E n \in Vectored : TakeException(n)
    \/ HandlerReturn
    \/ Default_Handler

BootParked ==
    /\ bpc = "off"
    /\ layout = [sidata |-> 0, sdata |-> 0, edata |-> 0, sbss |-> 0, ebss |-> 0]
    /\ flash = <<>>
    /\ ram = <<>>
    /\ src = 0
    /\ dst = 0
    /\ nPre = 0
    /\ nInit = 0
    /\ p = 0
    /\ ctorLog = <<>>
    /\ nCopied = 0
    /\ nZeroed = 0
    /\ mainCalls = 0

InitVectors == VecVarsInit /\ BootParked /\ SysParked /\ HalParked

SpecVectors == InitVectors /\ [][NextVectors]_vars

(***************************************************************************)
(* Properties of the vector table                                          *)
(***************************************************************************)
\* C3: slot 0 is the stack top, slot 1 Reset_Handler, the core exceptions sit
\* at their architectural numbers (NMI 2, HardFault 3, MemManage 4,
\* BusFault 5, UsageFault 6, SVC 11, DebugMonitor 12, PendSV 14, SysTick 15,
\* 7-10 and 13 reserved) and the vector of device interrupt n is slot 16 + n,
\* so every exception enters through the slot of its own handler.
C3_VectorLayout ==
    LET Core == { <<2, "NMI_Handler">>, <<3, "HardFault_Handler">>,
                  <<4, "MemManage_Handler">>, <<5, "BusFault_Handler">>,
                  <<6, "UsageFault_Handler">>, <<11, "SVC_Handler">>,
                  <<12, "DebugMon_Handler">>, <<14, "PendSV_Handler">>,
                  <<15, "SysTick_Handler">> }
        \* NVIC interrupt numbers of the STM32F4 for the handlers declared
        Irq  == { <<0, "WWDG_IRQHandler">>, <<1, "PVD_IRQHandler">>,
                  <<2, "TAMP_STAMP_IRQHandler">>, <<3, "RTC_WKUP_IRQHandler">>,
                  <<4, "FLASH_IRQHandler">>, <<5, "RCC_IRQHandler">>,
                  <<6, "EXTI0_IRQHandler">>, <<7, "EXTI1_IRQHandler">>,
                  <<8, "EXTI2_IRQHandler">>, <<9, "EXTI3_IRQHandler">>,
                  <<10, "EXTI4_IRQHandler">>,
                  <<11, "DMA1_Stream0_IRQHandler">>,
                  <<12, "DMA1_Stream1_IRQHandler">>,
                  <<13, "DMA1_Stream2_IRQHandler">>,
                  <<14, "DMA1_Stream3_IRQHandler">>,
                  <<15, "DMA1_Stream4_IRQHandler">>,
                  <<16, "DMA1_Stream5_IRQHandler">>,
                  <<17, "DMA1_Stream6_IRQHandler">>,
                  <<18, "ADC_IRQHandler">>, <<23, "EXTI9_5_IRQHandler">>,
                  <<24, "TIM1_BRK_TIM9_IRQHandler">>,
                  <<25, "TIM1_UP_TIM10_IRQHandler">>,
                  <<28, "TIM2_IRQHandler">>, <<29, "TIM3_IRQHandler">>,
                  <<30, "TIM4_IRQHandler">>, <<31, "I2C1_EV_IRQHandler">>,
                  <<32, "I2C1_ER_IRQHandler">>, <<33, "I2C2_EV_IRQHandler">>,
                  <<34, "I2C2_ER_IRQHandler">>, <<35, "SPI1_IRQHandler">>,
                  <<36, "SPI2_IRQHandler">>, <<37, "USART1_IRQHandler">>,
                  <<38, "USART2_IRQHandler">>, <<39, "USART3_IRQHandler">> }
        Arch == Core \cup { <<16 + e[1], e[2]>> : e \in Irq }
    IN  /\ vsp # "none" => vsp = "_estack"
        /\ active = 1 => fetched = "Reset_Handler"
        /\ active >= 2 => <<active, fetched>> \in Arch
        /\ \A i \in {7, 8, 9, 10, 13} : VectorAt(i) = "nullptr"
        /\ \A e \in Arch : VectorAt(e[1]) = e[2]

\* C3 witness: the USART2 interrupt (NVIC number 38) was taken through
\* slot 54 after a reset that loaded the stack top
C3_Witness ==
    /\ vsp = "_estack"
    /\ active = 54
    /\ fetched = "USART2_IRQHandler"

\* C4 (as claimed): an exception enters the application's handler when the
\* application defines it and otherwise a default handler that spins; in
\* particular a HardFault, MemManage, BusFault or UsageFault that is not
\* overridden enters Default_Handler.
C4_DefaultSpins ==
    active >= 2 =>
        /\ entered = vtable[active]
        /\ entered = (IF fetched \in overridden THEN fetched
                      ELSE "Default_Handler")

(***************************************************************************)
(* 32-bit unsigned arithmetic on <<high 16 bits, low 16 bits>>             *)
(***************************************************************************)
W16 == 65536

\* the u32 of a natural number below 2^31
U32Of(n) == <<(n \div W16) % W16, n % W16>>

\* a + 1 (mod 2^32)
U32Inc(a) ==
    IF a[2] = W16 - 1 THEN <<(a[1] + 1) % W16, 0>> ELSE <<a[1], a[2] + 1>>

\* a + n (mod 2^32) for a natural number n below 2^31
U32AddN(a, n) ==
    LET lo == a[2] + (n % W16)
        hi == a[1] + (n \div W16) + (lo \div W16)
    IN  <<hi % W16, lo % W16>>

\* a - b (mod 2^32)
U32Sub(a, b) ==
    LET lo == a[2] - b[2]
        borrow == IF lo < 0 THEN 1 ELSE 0
    IN  <<(a[1] - b[1] - borrow + W16) % W16, (lo + W16) % W16>>

\* a < b, unsigned
U32Lt(a, b) == a[1] < b[1] \/ (a[1] = b[1] /\ a[2] < b[2])

\* k * a (mod 2^32) for a small factor k
U32MulN(k, a) ==
    LET lo == k * a[2]
        hi == k * a[1] + (lo \div W16)
    IN  <<hi % W16, lo % W16>>

\* a / d for a small divisor d
U32DivN(a, d) ==
    <<a[1] \div d, (((a[1] % d) * W16) + a[2]) \div d>>

(***************************************************************************)
(* System, SysTick_Handler, CriticalSection                                *)
(***************************************************************************)
SYSTEM_CLOCK_HZ == 168000000
TICK_RATE_HZ == 1000

\* register addresses
AIRCR == "0xE000ED0C"
SCR == "0xE000ED10"
SYST_CSR == "0xE000E010"
SYST_RVR == "0xE000E014"
SYST_CVR == "0xE000E018"

RegAddrs == {AIRCR, SCR, SYST_CSR, SYST_RVR, SYST_CVR}

\* x << n
ShiftLeft(x, n) == x * (2 ^ n)

\* a | b
RECURSIVE BitOr(_, _)
BitOr(a, b) ==
    IF a = 0 THEN b
    ELSE IF b = 0 THEN a
    ELSE (IF a % 2 = 1 \/ b % 2 = 1 THEN 1 ELSE 0) + 2 * BitOr(a \div 2, b \div 2)

\* a & ~b
RECURSIVE BitAndNot(_, _)
BitAndNot(a, b) ==
    IF a = 0 THEN 0
    ELSE (IF a % 2 = 1 /\ b % 2 = 0 THEN 1 ELSE 0) + 2 * BitAndNot(a \div 2, b \div 2)

\* bit n of x
BitSet(x, n) == (x \div (2 ^ n)) % 2 = 1

\* *reg = v
WriteReg(r, v) ==
    /\ regs' = [regs EXCEPT ![r] = v]
    /\ wlog' = Append(wlog, <<r, v>>)

\* SysTick raises its exception when the counter is enabled with TICKINT
SysTickArmed == BitSet(regs[SYST_CSR], 0) /\ BitSet(regs[SYST_CSR], 1)

\* the factory-programmed device id words at 0x1FFF7A10
UID_BASE == << <<18, 52>>, <<86, 120>>, <<154, 188>> >>

\* tick values the counter holds at the start of a run: 0 after reset, or a
\* value shortly before the 2^32 wraparound of a long-running system
LateTicks == { <<W16 - 1, W16 - 2>> }

RegsAtReset == [r \in RegAddrs |-> 0]

RegsAfterInit ==
    [r \in RegAddrs |->
        IF r = SYST_RVR THEN (SYSTEM_CLOCK_HZ \div TICK_RATE_HZ) - 1
        ELSE IF r = SYST_CSR THEN BitOr(BitOr(ShiftLeft(1, 0), ShiftLeft(1, 1)), ShiftLeft(1, 2))
        ELSE IF r = AIRCR THEN BitOr(ShiftLeft(1530, 16), ShiftLeft(3, 8))
        ELSE 0]

SysVarsInit ==
    /\ pc = "idle"
    /\ \/ /\ s_tickCount = <<0, 0>>
          /\ regs = RegsAtReset
       \/ /\ s_tickCount \in LateTicks
          /\ regs = RegsAfterInit
    /\ primask = 0
    /\ guards = <<>>
    /\ wlog = <<>>
    /\ status = "none"
    /\ ticksRet = <<>>
    /\ dm_start = <<>>
    /\ dm_ms = 0
    /\ cycles = <<0, 0>>
    /\ du_us = <<>>
    /\ idBuf = <<>>
    /\ isrCount = 0
    /\ prevRead = <<>>
    /\ kBetween = 0
    /\ ticksSince = 0
    /\ csBefore = 0
    /\ csDepth = 0
    /\ dmTicks = 0
    /\ iterTicks = 0

\* the variables no System call and no handler but the named ones touch
maskVars == <<primask, guards, csBefore, csDepth>>
readVars == <<ticksRet, prevRead, kBetween, ticksSince>>
delayVars == <<dm_start, dm_ms, dmTicks, iterTicks>>

\* ---- System::init ----
\* init(): initClocks() has an empty body; initSysTick() starts
System_init ==
    /\ pc = "idle"
    /\ pc' = "initSysTick_rvr"
    /\ wlog' = <<>>
    /\ UNCHANGED <<s_tickCount, regs, status, cycles, du_us, idBuf, isrCount>>
    /\ UNCHANGED <<maskVars, readVars, delayVars>>
    /\ UNCHANGED notSys

\* Mutant of InitSysTick_RVR: the reload value is the period, not period - 1
InitSysTick_RVR_Period ==
    /\ pc = "initSysTick_rvr"
    /\ WriteReg(SYST_RVR, SYSTEM_CLOCK_HZ \div TICK_RATE_HZ)
    /\ pc' = "initSysTick_cvr"
    /\ UNCHANGED <<s_tickCount, status, cycles, du_us, idBuf, isrCount>>
    /\ UNCHANGED <<maskVars, readVars, delayVars>>
    /\ UNCHANGED notSys

\* *SYST_RVR = (SYSTEM_CLOCK_HZ / TICK_RATE_HZ) - 1
InitSysTick_RVR ==
    /\ pc = "initSysTick_rvr"
    /\ WriteReg(SYST_RVR, (SYSTEM_CLOCK_HZ \div TICK_RATE_HZ) - 1)
    /\ pc' = "initSysTick_cvr"
    /\ UNCHANGED <<s_tickCount, status, cycles, du_us, idBuf, isrCount>>
    /\ UNCHANGED <<maskVars, readVars, delayVars>>
    /\ UNCHANGED notSys

\* Mutant of InitSysTick_CVR: clearing the counter also restarts the tick count
InitSysTick_CVR_ResetsTicks ==
    /\ pc = "initSysTick_cvr"
    /\ WriteReg(SYST_CVR, 0)
    /\ s_tickCount' = <<0, 0>>
    /\ pc' = "initSysTick_csr"
    /\ UNCHANGED <<status, cycles, du_us, idBuf, isrCount>>
    /\ UNCHANGED <<maskVars, readVars, delayVars>>
    /\ UNCHANGED notSys

\* *SYST_CVR = 0
InitSysTick_CVR ==
    /\ pc = "initSysTick_cvr"
    /\ WriteReg(SYST_CVR, 0)
    /\ pc' = "initSysTick_csr"
    /\ UNCHANGED <<s_tickCount, status, cycles, du_us, idBuf, isrCount>>
    /\ UNCHANGED <<maskVars, readVars, delayVars>>
    /\ UNCHANGED notSys

\* *SYST_CSR = (1 << 0) | (1 << 1) | (1 << 2)
InitSysTick_CSR ==
    /\ pc = "initSysTick_csr"
    /\ WriteReg(SYST_CSR, BitOr(BitOr(ShiftLeft(1, 0), ShiftLeft(1, 1)), ShiftLeft(1, 2)))
    /\ pc' = "initNvic"
    /\ UNCHANGED <<s_tickCount, status, cycles, du_us, idBuf, isrCount>>
    /\ UNCHANGED <<maskVars, readVars, delayVars>>
    /\ UNCHANGED notSys

\* initNvic(): *AIRCR = (0x5FA << 16) | (3 << 8); then init returns Ok
InitNvic ==
    /\ pc = "initNvic"
    /\ WriteReg(AIRCR, BitOr(ShiftLeft(1530, 16), ShiftLeft(3, 8)))
    /\ status' = "Ok"
    /\ pc' = "idle"
    /\ UNCHANGED <<s_tickCount, cycles, du_us, idBuf, isrCount>>
    /\ UNCHANGED <<maskVars, readVars, delayVars>>
    /\ UNCHANGED notSys

\* ---- System::reset ----
\* Mutant of System_reset: the request bit is written without the key
System_reset_NoKey ==
    /\ pc = "idle"
    /\ wlog' = << <<AIRCR, ShiftLeft(1, 2)>> >>
    /\ regs' = [regs EXCEPT ![AIRCR] = ShiftLeft(1, 2)]
    /\ pc' = "reset_spin"
    /\ UNCHANGED <<s_tickCount, status, cycles, du_us, idBuf, isrCount>>
    /\ UNCHANGED <<maskVars, readVars, delayVars>>
    /\ UNCHANGED notSys

\* *AIRCR = (0x5FA << 16) | (1 << 2); then while (true) nop
System_reset ==
    /\ pc = "idle"
    /\ wlog' = << <<AIRCR, BitOr(ShiftLeft(1530, 16), ShiftLeft(1, 2))>> >>
    /\ regs' = [regs EXCEPT ![AIRCR] = BitOr(ShiftLeft(1530, 16), ShiftLeft(1, 2))]
    /\ pc' = "reset_spin"
    /\ UNCHANGED <<s_tickCount, status, cycles, du_us, idBuf, isrCount>>
    /\ UNCHANGED <<maskVars, readVars, delayVars>>
    /\ UNCHANGED notSys

\* the wait loop of reset()
Reset_spin ==
    /\ pc = "reset_spin"
    /\ UNCHANGED sysVars
    /\ UNCHANGED notSys

\* ---- System::getTicks ----
\* Mutant of System_getTicks: the counter is read through a 16-bit type
System_getTicks_Narrow ==
    /\ pc = "idle"
    /\ ticksRet' = <<0, s_tickCount[2]>>
    /\ prevRead' = ticksRet
    /\ kBetween' = ticksSince
    /\ ticksSince' = 0
    /\ UNCHANGED <<pc, s_tickCount, regs, wlog, status, cycles, du_us, idBuf, isrCount>>
    /\ UNCHANGED <<maskVars, delayVars>>
    /\ UNCHANGED notSys

\* return s_tickCount;
System_getTicks ==
    /\ pc = "idle"
    /\ ticksRet' = s_tickCount
    /\ prevRead' = ticksRet
    /\ kBetween' = ticksSince
    /\ ticksSince' = 0
    /\ UNCHANGED <<pc, s_tickCount, regs, wlog, status, cycles, du_us, idBuf, isrCount>>
    /\ UNCHANGED <<maskVars, delayVars>>
    /\ UNCHANGED notSys

\* ---- System::delayMs ----
\* Mutant of DelayMsWaiting: the wait compares against a deadline start + ms
DelayMsWaiting_Deadline(now, start, ms) == U32Lt(now, U32AddN(start, ms))

\* the loop condition (s_tickCount - start) < ms
DelayMsWaiting(now, start, ms) == U32Lt(U32Sub(now, start), U32Of(ms))

\* Mutant of System_delayMs: the wait runs with interrupts masked
System_delayMs_Masked(ms) ==
    /\ pc = "idle"
    /\ dm_ms' = ms
    /\ dm_start' = s_tickCount
    /\ dmTicks' = 0
    /\ iterTicks' = 0
    /\ primask' = 1
    /\ pc' = "delayMs_test"
    /\ UNCHANGED <<s_tickCount, regs, wlog, status, cycles, du_us, idBuf, isrCount>>
    /\ UNCHANGED <<guards, csBefore, csDepth, readVars>>
    /\ UNCHANGED notSys

\* u32 start = s_tickCount;
System_delayMs(ms) ==
    /\ pc = "idle"
    /\ dm_ms' = ms
    /\ dm_start' = s_tickCount
    /\ dmTicks' = 0
    /\ iterTicks' = 0
    /\ pc' = "delayMs_test"
    /\ UNCHANGED <<s_tickCount, regs, wlog, status, cycles, du_us, idBuf, isrCount>>
    /\ UNCHANGED <<maskVars, readVars>>
    /\ UNCHANGED notSys

\* while ((s_tickCount - start) < ms): one evaluation of the condition
DelayMs_test ==
    /\ pc = "delayMs_test"
    /\ pc' = IF DelayMsWaiting(s_tickCount, dm_start, dm_ms)
             THEN "delayMs_nop" ELSE "idle"
    /\ iterTicks' = 0
    /\ UNCHANGED <<s_tickCount, regs, wlog, status, cycles, du_us, idBuf, isrCount,
                   dm_start, dm_ms, dmTicks>>
    /\ UNCHANGED <<maskVars, readVars>>
    /\ UNCHANGED notSys

\* the loop body: nop
DelayMs_nop ==
    /\ pc = "delayMs_nop"
    /\ pc' = "delayMs_test"
    /\ UNCHANGED <<s_tickCount, regs, wlog, status, cycles, du_us, idBuf, isrCount>>
    /\ UNCHANGED <<maskVars, readVars, delayVars>>
    /\ UNCHANGED notSys

\* ---- System::delayUs ----
\* u32 cycles = (SYSTEM_CLOCK_HZ / 1000000) * us / 4;
DelayUsCycles(us) == U32DivN(U32MulN(SYSTEM_CLOCK_HZ \div 1000000, us), 4)

System_delayUs(us) ==
    /\ pc = "idle"
    /\ du_us' = us
    /\ cycles' = DelayUsCycles(us)
    /\ pc' = "delayUs_loop"
    /\ UNCHANGED <<s_tickCount, regs, wlog, status, idBuf, isrCount>>
    /\ UNCHANGED <<maskVars, readVars, delayVars>>
    /\ UNCHANGED notSys

\* while (cycles--) nop: the loop runs cycles times; the last evaluation of
\* the condition leaves cycles at 0xFFFFFFFF
DelayUs_loop ==
    /\ pc = "delayUs_loop"
    /\ cycles' = U32Sub(<<0, 0>>, <<0, 1>>)
    /\ du_us' = <<>>
    /\ pc' = "idle"
    /\ UNCHANGED <<s_tickCount, regs, wlog, status, idBuf, isrCount>>
    /\ UNCHANGED <<maskVars, readVars, delayVars>>
    /\ UNCHANGED notSys

\* ---- System::sleep ----
System_sleep ==
    /\ pc = "idle"
    /\ pc' = "sleep_wfi"
    /\ UNCHANGED <<s_tickCount, regs, wlog, status, cycles, du_us, idBuf, isrCount>>
    /\ UNCHANGED <<maskVars, readVars, delayVars>>
    /\ UNCHANGED notSys

\* wfi completes when an interrupt is signalled
Sleep_wfi ==
    /\ pc = "sleep_wfi"
    /\ pc' = "idle"
    /\ UNCHANGED <<s_tickCount, regs, wlog, status, cycles, du_us, idBuf, isrCount>>
    /\ UNCHANGED <<maskVars, readVars, delayVars>>
    /\ UNCHANGED notSys

\* ---- System::deepSleep ----
\* *SCR |= (1 << 2)
System_deepSleep ==
    /\ pc = "idle"
    /\ wlog' = << <<SCR, BitOr(regs[SCR], ShiftLeft(1, 2))>> >>
    /\ regs' = [regs EXCEPT ![SCR] = BitOr(regs[SCR], ShiftLeft(1, 2))]
    /\ pc' = "deepSleep_dsb"
    /\ UNCHANGED <<s_tickCount, status, cycles, du_us, idBuf, isrCount>>
    /\ UNCHANGED <<maskVars, readVars, delayVars>>
    /\ UNCHANGED notSys

\* dsb
DeepSleep_dsb ==
    /\ pc = "deepSleep_dsb"
    /\ pc' = "deepSleep_wfi"
    /\ UNCHANGED <<s_tickCount, regs, wlog, status, cycles, du_us, idBuf, isrCount>>
    /\ UNCHANGED <<maskVars, readVars, delayVars>>
    /\ UNCHANGED notSys

\* wfi completes when an interrupt is signalled
DeepSleep_wfi ==
    /\ pc = "deepSleep_wfi"
    /\ pc' = "deepSleep_clear"
    /\ UNCHANGED <<s_tickCount, regs, wlog, status, cycles, du_us, idBuf, isrCount>>
    /\ UNCHANGED <<maskVars, readVars, delayVars>>
    /\ UNCHANGED notSys

\* Mutant of DeepSleep_clear: the whole register is cleared, not bit 2 alone
DeepSleep_clear_Zero ==
    /\ pc = "deepSleep_clear"
    /\ WriteReg(SCR, 0)
    /\ pc' = "idle"
    /\ UNCHANGED <<s_tickCount, status, cycles, du_us, idBuf, isrCount>>
    /\ UNCHANGED <<maskVars, readVars, delayVars>>
    /\ UNCHANGED notSys

\* *SCR &= ~(1 << 2)
DeepSleep_clear ==
    /\ pc = "deepSleep_clear"
    /\ WriteReg(SCR, BitAndNot(regs[SCR], ShiftLeft(1, 2)))
    /\ pc' = "idle"
    /\ UNCHANGED <<s_tickCount, status, cycles, du_us, idBuf, isrCount>>
    /\ UNCHANGED <<maskVars, readVars, delayVars>>
    /\ UNCHANGED notSys

\* ---- System::getUniqueId ----
\* id[0] = UID_BASE[0]; id[1] = UID_BASE[1]; id[2] = UID_BASE[2];
System_getUniqueId ==
    /\ pc = "idle"
    /\ idBuf' = <<UID_BASE[1], UID_BASE[2], UID_BASE[3]>>
    /\ UNCHANGED <<pc, s_tickCount, regs, wlog, status, cycles, du_us, isrCount>>
    /\ UNCHANGED <<maskVars, readVars, delayVars>>
    /\ UNCHANGED notSys

\* ---- System::enablePeripheralClock / disablePeripheralClock ----
\* UNUSED(peripheral); return Status::Ok;
System_enablePeripheralClock(peripheral) ==
    /\ pc = "idle"
    /\ status' = "Ok"
    /\ UNCHANGED <<pc, s_tickCount, regs, wlog, cycles, du_us, idBuf, isrCount>>
    /\ UNCHANGED <<maskVars, readVars, delayVars>>
    /\ UNCHANGED notSys

System_disablePeripheralClock(peripheral) ==
    /\ pc = "idle"
    /\ status' = "Ok"
    /\ UNCHANGED <<pc, s_tickCount, regs, wlog, cycles, du_us, idBuf, isrCount>>
    /\ UNCHANGED <<maskVars, readVars, delayVars>>
    /\ UNCHANGED notSys

\* ---- disableInterrupts / restoreInterrupts / CriticalSection ----
\* Mutant of MrsPrimask: PRIMASK is read after cpsid instead of before it
MrsPrimask_AfterCpsid(mask) == 1

\* mrs %0, primask: the value disableInterrupts() returns
MrsPrimask(mask) == mask

\* Mutant of MsrPrimask: the exit path enables interrupts (cpsie i)
MsrPrimask_Enable(v) == 0

\* msr primask, %0: PRIMASK takes bit 0 of the operand
MsrPrimask(v) == v % 2

\* CriticalSection(): m_primask(disableInterrupts())
CriticalSection_ctor ==
    /\ pc = "idle"
    /\ Len(guards) < MaxNest
    /\ guards' = Append(guards, MrsPrimask(primask))
    /\ primask' = 1
    /\ csBefore' = IF guards = <<>> THEN primask ELSE csBefore
    /\ csDepth' = IF guards = <<>> THEN 1
                  ELSE IF Len(guards) + 1 > csDepth THEN Len(guards) + 1
                  ELSE csDepth
    /\ UNCHANGED <<pc, s_tickCount, regs, wlog, status, cycles, du_us, idBuf, isrCount>>
    /\ UNCHANGED <<readVars, delayVars>>
    /\ UNCHANGED notSys

\* ~CriticalSection(): restoreInterrupts(m_primask); the objects are scoped,
\* so the innermost one is destroyed first
CriticalSection_dtor ==
    /\ pc = "idle"
    /\ guards # <<>>
    /\ primask' = MsrPrimask(guards[Len(guards)])
    /\ guards' = SubSeq(guards, 1, Len(guards) - 1)
    /\ UNCHANGED <<pc, s_tickCount, regs, wlog, status, cycles, du_us, idBuf, isrCount,
                   csBefore, csDepth>>
    /\ UNCHANGED <<readVars, delayVars>>
    /\ UNCHANGED notSys

\* disableInterrupts() called by the application outside any guard, the
\* result dropped
Call_disableInterrupts ==
    /\ pc = "idle"
    /\ guards = <<>>
    /\ primask' = 1
    /\ csDepth' = 0
    /\ csBefore' = 0
    /\ UNCHANGED <<pc, s_tickCount, regs, wlog, status, cycles, du_us, idBuf, isrCount,
                   guards>>
    /\ UNCHANGED <<readVars, delayVars>>
    /\ UNCHANGED notSys

\* restoreInterrupts(v) called by the application outside any guard
Call_restoreInterrupts(v) ==
    /\ pc = "idle"
    /\ guards = <<>>
    /\ primask' = MsrPrimask(v)
    /\ csDepth' = 0
    /\ csBefore' = 0
    /\ UNCHANGED <<pc, s_tickCount, regs, wlog, status, cycles, du_us, idBuf, isrCount,
                   guards>>
    /\ UNCHANGED <<readVars, delayVars>>
    /\ UNCHANGED notSys

\* ---- SysTick_Handler ----
\* s_tickCount++
TickIncrement(t) == U32Inc(t)

\* Mutant of SysTick_Handler: the exception is taken although PRIMASK is set
SysTick_Handler_Unmasked ==
    /\ pc # "off"
    /\ SysTickArmed
    /\ isrCount < MaxIsr
    /\ s_tickCount' = TickIncrement(s_tickCount)
    /\ isrCount' = isrCount + 1
    /\ ticksSince' = ticksSince + 1
    /\ UNCHANGED <<pc, regs, wlog, status, cycles, du_us, idBuf>>
    /\ UNCHANGED <<maskVars, delayVars, ticksRet, prevRead, kBetween>>
    /\ UNCHANGED notSys

\* The SysTick exception preempts the foreground code at any point while
\* SysTick is armed and PRIMASK is clear; the handler runs to completion.
SysTick_Handler ==
    /\ pc # "off"
    /\ SysTickArmed
    /\ primask = 0
    /\ isrCount < MaxIsr
    /\ s_tickCount' = TickIncrement(s_tickCount)
    /\ isrCount' = isrCount + 1
    /\ ticksSince' = ticksSince + 1
    /\ UNCHANGED <<pc, regs, wlog, status, cycles, du_us, idBuf>>
    /\ UNCHANGED <<maskVars, delayVars, ticksRet, prevRead, kBetween>>
    /\ UNCHANGED notSys

\* microsecond arguments tried: short waits, the two values around
\* 2^32 / 168 = 25565281.5 (390 * 2^16 + 6241 and + 6242), and the largest u32
DelayUsArgs ==
    {<<0, 0>>, <<0, 1>>, <<0, 1000>>, <<390, 6241>>, <<390, 6242>>,
     <<W16 - 1, W16 - 1>>}

\* the System API called in any order by the foreground code, preempted by SysTick
NextSystem ==
    \/ System_init \/ InitSysTick_RVR \/ InitSysTick_CVR \/ InitSysTick_CSR
    \/ InitNvic
    \/ System_reset \/ Reset_spin
    \/ System_getTicks
    \/ \E ms \in 0..MaxDelayMs : System_delayMs(ms)
    \/ DelayMs_test \/ DelayMs_nop
    \/ \E us \in DelayUsArgs : System_delayUs(us)
    \/ DelayUs_loop
    \/ System_sleep \/ Sleep_wfi
    \/ System_deepSleep \/ DeepSleep_dsb \/ DeepSleep_wfi \/ DeepSleep_clear
    \/ System_getUniqueId
    \/ \E per \in {0, 1} : System_enablePeripheralClock(per)
    \/ \E per \in {0, 1} : System_disablePeripheralClock(per)
    \/ SysTick_Handler

\* foreground code that builds and destroys guards, masks and unmasks
\* interrupts directly, reads the tick counter and waits on it, preempted by
\* SysTick whenever PRIMASK allows
NextCritical ==
    \/ System_init \/ InitSysTick_RVR \/ InitSysTick_CVR \/ InitSysTick_CSR
    \/ InitNvic
    \/ System_getTicks
    \/ \E ms \in 0..MaxDelayMs : System_delayMs(ms)
    \/ DelayMs_test \/ DelayMs_nop
    \/ CriticalSection_ctor \/ CriticalSection_dtor
    \/ Call_disableInterrupts
    \/ \E v \in {0, 1} : Call_restoreInterrupts(v)
    \/ SysTick_Handler

InitSystem == SysVarsInit /\ BootParked /\ VecParked /\ HalParked

SpecCritical == InitSystem /\ [][NextCritical]_vars

SpecSystem == InitSystem /\ [][NextSystem]_vars

(***************************************************************************)
(* delayMs against a tick source that advances at most one tick per loop   *)
(* iteration                                                               *)
(***************************************************************************)
\* tick values at the start of a run: 0, and values within 32 of 2^32
DelayStartTicks == { <<0, 0>>, <<W16 - 1, W16 - 16>>, <<W16 - 1, W16 - 1>> }

\* delays tried: the short ones and the 32 ms of the wraparound scenario
DelayArgs == (0..MaxDelayMs) \cup {32}

DelayVarsInit ==
    /\ pc = "idle"
    /\ s_tickCount \in DelayStartTicks
    /\ regs = RegsAfterInit
    /\ primask = 0
    /\ guards = <<>>
    /\ wlog = <<>>
    /\ status = "none"
    /\ ticksRet = <<>>
    /\ dm_start = <<>>
    /\ dm_ms = 0
    /\ cycles = <<0, 0>>
    /\ du_us = <<>>
    /\ idBuf = <<>>
    /\ isrCount = 0
    /\ prevRead = <<>>
    /\ kBetween = 0
    /\ ticksSince = 0
    /\ csBefore = 0
    /\ csDepth = 0
    /\ dmTicks = 0
    /\ iterTicks = 0

\* a call of delayMs(ms) that the remaining ticks of the run can serve
Mock_delayMs(ms) ==
    /\ isrCount + ms + 1 <= MaxMockTicks
    /\ System_delayMs(ms)

\* the tick source: SysTick_Handler runs at most once between two reads of
\* s_tickCount by the waiting loop
MockTick ==
    /\ pc \in {"delayMs_test", "delayMs_nop"}
    /\ iterTicks = 0
    /\ isrCount < MaxMockTicks
    /\ s_tickCount' = TickIncrement(s_tickCount)
    /\ isrCount' = isrCount + 1
    /\ ticksSince' = ticksSince + 1
    /\ dmTicks' = dmTicks + 1
    /\ iterTicks' = 1
    /\ UNCHANGED <<pc, regs, wlog, status, cycles, du_us, idBuf, dm_start, dm_ms>>
    /\ UNCHANGED <<maskVars, ticksRet, prevRead, kBetween>>
    /\ UNCHANGED notSys

NextDelay ==
    \/ \E ms \in DelayArgs : Mock_delayMs(ms)
    \/ DelayMs_test
    \/ DelayMs_nop
    \/ MockTick

InitDelay == DelayVarsInit /\ BootParked /\ VecParked /\ HalParked

\* the CPU keeps executing the loop and the tick source keeps ticking
SpecDelay ==
    /\ InitDelay
    /\ [][NextDelay]_vars
    /\ WF_vars(DelayMs_test)
    /\ WF_vars(DelayMs_nop)
    /\ WF_vars(MockTick)

(***************************************************************************)
(* sleep and deepSleep on a system whose SCR other code has already set up  *)
(***************************************************************************)
\* SCR values at the start of a run: the reset value, SLEEPONEXIT (bit 1),
\* SLEEPDEEP (bit 2) left set, and SLEEPONEXIT | SLEEPDEEP | SEVONPEND
ScrValues == {0, 2, 4, 22}

SleepVarsInit ==
    /\ pc = "idle"
    /\ s_tickCount \in {<<0, 0>>} \cup LateTicks
    /\ \E v \in ScrValues : regs = [RegsAfterInit EXCEPT ![SCR] = v]
    /\ primask = 0
    /\ guards = <<>>
    /\ wlog = <<>>
    /\ status = "none"
    /\ ticksRet = <<>>
    /\ dm_start = <<>>
    /\ dm_ms = 0
    /\ cycles = <<0, 0>>
    /\ du_us = <<>>
    /\ idBuf = <<>>
    /\ isrCount = 0
    /\ prevRead = <<>>
    /\ kBetween = 0
    /\ ticksSince = 0
    /\ csBefore = 0
    /\ csDepth = 0
    /\ dmTicks = 0
    /\ iterTicks = 0

\* the foreground code sleeps and deep-sleeps in any order while SysTick runs
NextSleep ==
    \/ System_sleep \/ Sleep_wfi
    \/ System_deepSleep \/ DeepSleep_dsb \/ DeepSleep_wfi \/ DeepSleep_clear
    \/ SysTick_Handler

InitSleep == SleepVarsInit /\ BootParked /\ VecParked /\ HalParked

SpecSleep == InitSleep /\ [][NextSleep]_vars

(***************************************************************************)
(* Properties of System and CriticalSection                                *)
(***************************************************************************)
C5_Inv ==
    /\ pc = "delayMs_nop" => dm_ms > 0
    /\ (pc = "idle" /\ dm_start # <<>>) =>
          /\ dm_ms <= dmTicks
          /\ dmTicks <= dm_ms + 2
          /\ ~U32Lt(U32Sub(s_tickCount, dm_start), U32Of(dm_ms))
          /\ U32Sub(s_tickCount, dm_start) = U32Of(dmTicks)

\* C5: with a tick source that advances one tick per loop iteration,
\* delayMs(d) returns after t ticks with d <= t <= d + 2 for every start
\* value, the 2^32 wraparound included: never before (now - start) mod 2^32
\* reaches d, at once for d = 0, and every call returns.
C5_DelayBounds ==
    [] C5_Inv /\ ((pc = "delayMs_test") ~> (pc = "idle"))

\* C5 witness: the 32 ms delay started at 0xFFFFFFF0 has returned at tick
\* 0x00000010
C5_Witness ==
    /\ pc = "idle"
    /\ dm_start = <<W16 - 1, W16 - 16>>
    /\ dm_ms = 32
    /\ dmTicks = 32
    /\ s_tickCount = <<0, 16>>

\* C6: of two successive getTicks() results v1, v2 the second is
\* (v1 + k) mod 2^32 with k the number of SysTick_Handler runs between the
\* reads; it is below v1 only when the counter wrapped.
C6_ReadsFollowTicks ==
    prevRead # <<>> =>
        /\ ticksRet = U32AddN(prevRead, kBetween)
        /\ U32Lt(ticksRet, prevRead) => U32Lt(ticksRet, U32Of(kBetween))

\* C6 witness: a read of 0xFFFFFFFF, one tick, then a read of 0
C6_Witness ==
    /\ prevRead = <<W16 - 1, W16 - 1>>
    /\ ticksRet = <<0, 0>>
    /\ kBetween = 1

\* C7: a run of SysTick_Handler adds exactly 1 (mod 2^32) to the tick counter
\* and changes nothing else of the program state; no other step writes the
\* tick counter.
C7_OnlyHandlerWritesTicks ==
    [][ /\ isrCount' # isrCount =>
              /\ s_tickCount' = U32AddN(s_tickCount, 1)
              /\ UNCHANGED <<pc, primask, guards, regs, wlog, status, ticksRet,
                             dm_start, dm_ms, cycles, du_us, idBuf>>
        /\ isrCount' = isrCount => s_tickCount' = s_tickCount ]_vars

\* C7 witness: the handler ran past the wraparound and init, getUniqueId and
\* a delay ran as well
C7_Witness ==
    /\ isrCount = 2
    /\ s_tickCount = <<0, 0>>
    /\ status = "Ok"
    /\ Len(wlog) = 4
    /\ idBuf # <<>>

\* C8: once two nested guards have been destroyed (inner first), PRIMASK
\* equals its value before the outer guard was constructed.
C8_NestedRestore ==
    (guards = <<>> /\ csDepth >= 2) => primask = csBefore

\* C8 witness: two nested guards came and went with interrupts already
\* disabled before the outer one
C8_Witness ==
    /\ guards = <<>>
    /\ csDepth = 2
    /\ csBefore = 1
    /\ primask = 1

\* C9: while a guard is alive PRIMASK stays set, also after an inner guard
\* was destroyed, and SysTick_Handler does not run.
C9_MaskedWhileGuarded ==
    /\ [](guards # <<>> => primask = 1)
    /\ [][guards # <<>> => isrCount' = isrCount]_vars

\* C9 witness: the inner of two guards was destroyed, the outer one (built
\* with interrupts enabled and SysTick armed) is still alive
C9_Witness ==
    /\ Len(guards) = 1
    /\ csDepth = 2
    /\ csBefore = 0
    /\ SysTickArmed
    /\ primask = 1

\* C10 (as claimed): reset() writes 0x5FA00004 to AIRCR.
C10_ResetValueClaimed ==
    pc = "reset_spin" => wlog = << <<"0xE000ED0C", 1604321284>> >>

\* C10 (amended): reset() writes 0x05FA0004 (key 0x05FA in bits 31..16,
\* SYSRESETREQ in bit 2) to AIRCR at 0xE000ED0C, makes no other write and
\* never returns.
C10_ResetRequest ==
    /\ [](pc = "reset_spin" =>
            /\ wlog = << <<"0xE000ED0C", 100270084>> >>
            /\ regs["0xE000ED0C"] = 100270084)
    /\ [][pc = "reset_spin" =>
            (pc' = "reset_spin" /\ regs' = regs /\ wlog' = wlog)]_vars

\* C10 witness: reset() was called after init() and spins while SysTick
\* still interrupts
C10_Witness ==
    /\ pc = "reset_spin"
    /\ regs["0xE000ED0C"] = 100270084
    /\ regs[SYST_RVR] = 167999
    /\ isrCount >= 1

\* ---------------------------------------------------------------------------
\* C11: when System::init() returns Ok, SysTick is armed: SYST_RVR holds
\* (SYSTEM_CLOCK_HZ / 1000) - 1 = 167999, which fits the 24-bit counter,
\* SYST_CVR was cleared, SYST_CSR has ENABLE, TICKINT and CLKSOURCE set, and
\* AIRCR was written with the key 0x05FA and PRIGROUP = 3 without
\* SYSRESETREQ; the writes were made in that order and init() made no other.
InitWrites ==
    << <<SYST_RVR, 167999>>, <<SYST_CVR, 0>>, <<SYST_CSR, 7>>,
       <<AIRCR, 100270848>> >>

C11_InitArmsSysTick ==
    [][ (pc = "initNvic" /\ pc' = "idle") =>
          /\ status' = "Ok"
          /\ regs'[SYST_RVR] = 167999
          /\ regs'[SYST_RVR] < ShiftLeft(1, 24)
          /\ regs'[SYST_CVR] = 0
          /\ BitSet(regs'[SYST_CSR], 0)
          /\ BitSet(regs'[SYST_CSR], 1)
          /\ BitSet(regs'[SYST_CSR], 2)
          /\ regs'[AIRCR] \div W16 = 1530
          /\ (regs'[AIRCR] \div 256) % 8 = 3
          /\ ~BitSet(regs'[AIRCR], 2)
          /\ wlog' = InitWrites ]_vars

\* init() has returned Ok on a system that started from the reset values
C11_Witness ==
    /\ pc = "idle"
    /\ status = "Ok"
    /\ wlog = InitWrites
    /\ SysTickArmed
    /\ s_tickCount = <<0, 0>>

\* ---------------------------------------------------------------------------
\* a <= b, unsigned
U32Le(a, b) == ~U32Lt(b, a)

\* C12: the number of iterations of the busy-wait loop of delayUs, which is
\* the value of cycles when the loop is entered, increases monotonically
\* with the argument (for all us1 <= us2 the count of delayUs(us1) is <= the
\* count of delayUs(us2)), and delayUs(0) performs no iteration.
C12_DelayUsMonotone ==
    pc = "delayUs_loop" =>
        /\ du_us = <<0, 0>> => cycles = <<0, 0>>
        /\ \A us1 \in DelayUsArgs :
              U32Le(us1, du_us) => U32Le(DelayUsCycles(us1), cycles)

\* ---------------------------------------------------------------------------
\* the positions of the foreground code inside delayMs
DelayMsPcs == {"delayMs_test", "delayMs_nop"}

\* C13: delayMs never changes the interrupt mask and never enters a critical
\* section: no step that enters, runs or leaves the wait (the call, a loop
\* step, an interrupt taken meanwhile, the return) changes PRIMASK or the
\* set of live guards, so the mask stays the one at the call; with that mask
\* clear and SysTick armed the SysTick interrupt can be taken at every point
\* of the wait.
C13_DelayMsKeepsMask ==
    /\ [][ (pc \in DelayMsPcs \/ pc' \in DelayMsPcs) =>
             (primask' = primask /\ guards' = guards) ]_vars
    /\ []( (pc \in DelayMsPcs /\ primask = 0 /\ SysTickArmed
              /\ isrCount < MaxIsr) => ENABLED SysTick_Handler )

\* a SysTick interrupt was taken while delayMs was waiting with the mask clear
C13_Witness ==
    /\ pc = "delayMs_nop"
    /\ primask = 0
    /\ guards = <<>>
    /\ s_tickCount = U32Inc(dm_start)

\* ---------------------------------------------------------------------------
\* every SCR bit but SLEEPDEEP (bit 2) has the same value in a and b
OtherScrBitsSame(a, b) == \A n \in {0, 1, 3, 4} : BitSet(a, n) <=> BitSet(b, n)

\* C14: deepSleep sets SCR bit 2, then executes dsb, then wfi, then clears
\* SCR bit 2, with no other register write in between; on return SLEEPDEEP is
\* clear whatever SCR held before the call and every other SCR bit is as it
\* was; a sleep() after a deepSleep() executes its wfi with SLEEPDEEP clear.
C14_DeepSleepOrder ==
    /\ [][  /\ (pc' = "deepSleep_dsb" /\ pc' # pc) =>
                (/\ pc = "idle"
                 /\ BitSet(regs'[SCR], 2)
                 /\ OtherScrBitsSame(regs'[SCR], regs[SCR])
                 /\ wlog' = << <<SCR, regs'[SCR]>> >>)
            /\ (pc' = "deepSleep_wfi" /\ pc' # pc) => pc = "deepSleep_dsb"
            /\ (pc' = "deepSleep_clear" /\ pc' # pc) => pc = "deepSleep_wfi"
            /\ pc \in {"deepSleep_dsb", "deepSleep_wfi"} => regs' = regs
            /\ (pc = "deepSleep_clear" /\ pc' # pc) =>
                (/\ pc' = "idle"
                 /\ ~BitSet(regs'[SCR], 2)
                 /\ OtherScrBitsSame(regs'[SCR], wlog[1][2])
                 /\ wlog' = Append(wlog, <<SCR, regs'[SCR]>>)
                 /\ Len(wlog') = 2) ]_vars
    /\ [](pc \in {"deepSleep_dsb", "deepSleep_wfi", "deepSleep_clear"} =>
            BitSet(regs[SCR], 2))
    /\ []((pc \in {"idle", "sleep_wfi"} /\ Len(wlog) = 2) =>
            ~BitSet(regs[SCR], 2))

\* sleep() waits after a deepSleep() that started with SLEEPONEXIT, SLEEPDEEP
\* and SEVONPEND set: SLEEPDEEP is clear and the other two are still set
C14_Witness ==
    /\ pc = "sleep_wfi"
    /\ Len(wlog) = 2
    /\ wlog[1] = <<SCR, 22>>
    /\ regs[SCR] = 18

(***************************************************************************)
(* UART interrupt-driven transmit: transmitIT and the TX-empty interrupt    *)
(***************************************************************************)
UART_BUFFER_SIZE == 256

\* the u8 indices of the ring
TxIndexes == 0 .. (UART_BUFFER_SIZE - 1)

\* the k-th byte the application offers, k = 1, 2, ...: a test stream whose
\* period does not divide the ring size
TxPattern(k) == k % 251

\* a byte left in the ring by earlier traffic; the test stream never has it
StaleByte == 255

\* completion callbacks passed to transmitIT
TxCallbacks == {"nullptr", "onTxDone"}

\* bytes the ring holds: (head - tail) mod N
TxCount(head, tail) == (head + UART_BUFFER_SIZE - tail) % UART_BUFFER_SIZE

\* Mutant of TxFree: every slot may be filled, so a full ring has head = tail
TxFree_NoGap(head, tail) == UART_BUFFER_SIZE - TxCount(head, tail)

\* bytes the ring can still accept: it is full when (head + 1) mod N = tail
TxFree(head, tail) == UART_BUFFER_SIZE - 1 - TxCount(head, tail)

\* Mutant of RingPut: the store index is not reduced modulo the ring size
RingPut_NoWrap(ring, head, bytes) ==
    [k \in TxIndexes |->
        IF k >= head /\ k - head < Len(bytes)
        THEN bytes[k - head + 1]
        ELSE ring[k]]

\* the ring after bytes are stored at head, head + 1, ... (mod N)
RingPut(ring, head, bytes) ==
    [k \in TxIndexes |->
        IF TxCount(k, head) < Len(bytes)
        THEN bytes[TxCount(k, head) + 1]
        ELSE ring[k]]

\* transmitIT(data, length, callback): runs under a CriticalSection, so the
\* TX interrupt sees it as one step. With the TX-empty interrupt disabled the
\* first byte goes straight to the data register and the interrupt is
\* enabled; the other bytes are stored in the ring and head advances. If the
\* ring cannot take them nothing is stored and NoMemory is returned.
UART_transmitIT(length, callback) ==
    LET data == [i \in 1..length |-> TxPattern(Len(accepted) + i)]
        direct == IF txeie THEN 0 ELSE 1
        queued == SubSeq(data, direct + 1, length)
    IN  /\ IF Len(queued) > TxFree(m_txHead, m_txTail)
           THEN /\ txStatus' = "NoMemory"
                /\ UNCHANGED <<m_txBuffer, m_txHead, m_txTail, txeie,
                               m_txCallback, wire, accepted, cbFired>>
           ELSE /\ txStatus' = "Ok"
                /\ m_txHead' = (m_txHead + Len(queued)) % UART_BUFFER_SIZE
                /\ m_txBuffer' = RingPut(m_txBuffer, m_txHead, queued)
                /\ wire' = IF direct = 1 THEN Append(wire, data[1]) ELSE wire
                /\ txeie' = TRUE
                /\ m_txCallback' = callback
                /\ accepted' = accepted \o data
                /\ cbFired' = FALSE
                /\ UNCHANGED m_txTail
        /\ UNCHANGED notUart

\* Mutant of USART_TxIsr: the handler leaves the TX interrupt enabled when
\* it finds the ring empty
USART_TxIsr_StaysEnabled ==
    /\ txeie
    /\ IF m_txHead # m_txTail
       THEN /\ wire' = Append(wire, m_txBuffer[m_txTail])
            /\ m_txTail' = (m_txTail + 1) % UART_BUFFER_SIZE
            /\ UNCHANGED <<txeie, cbFired>>
       ELSE /\ cbFired' = (m_txCallback # "nullptr")
            /\ UNCHANGED <<wire, m_txTail, txeie>>
    /\ UNCHANGED <<m_txBuffer, m_txHead, m_txCallback, txStatus, accepted>>
    /\ UNCHANGED notUart

\* the TX-empty interrupt handler: pops the next byte of the ring and
\* writes it to the data register; on an empty ring it disables the TX
\* interrupt and invokes the completion callback, if any
USART_TxIsr ==
    /\ txeie
    /\ IF m_txHead # m_txTail
       THEN /\ wire' = Append(wire, m_txBuffer[m_txTail])
            /\ m_txTail' = (m_txTail + 1) % UART_BUFFER_SIZE
            /\ UNCHANGED <<txeie, cbFired>>
       ELSE /\ txeie' = FALSE
            /\ cbFired' = (m_txCallback # "nullptr")
            /\ UNCHANGED <<wire, m_txTail>>
    /\ UNCHANGED <<m_txBuffer, m_txHead, m_txCallback, txStatus, accepted>>
    /\ UNCHANGED notUart

\* positions of the empty ring at the start of a run: a fresh object, and
\* one that has already sent N - 2 or N - 1 bytes through the ring
TxStartIndexes == {0, UART_BUFFER_SIZE - 2, UART_BUFFER_SIZE - 1}

UartVarsInit ==
    /\ m_txHead \in TxStartIndexes
    /\ m_txTail = m_txHead
    /\ m_txBuffer = [k \in TxIndexes |-> IF k < m_txHead THEN StaleByte ELSE 0]
    /\ txeie = FALSE
    /\ m_txCallback = "nullptr"
    /\ txStatus = "none"
    /\ wire = <<>>
    /\ accepted = <<>>
    /\ cbFired = FALSE

InitUart == UartVarsInit /\ BootParked /\ VecParked /\ SysParked
    /\ GpioParked /\ AppParked

\* a transmitIT call of a run that accepts at most MaxTxBytes bytes
Tx_call(length, callback) ==
    /\ Len(accepted) + length <= MaxTxBytes
    /\ UART_transmitIT(length, callback)

\* the application splits its stream into calls of 1 .. MaxTxLen bytes while
\* the TX interrupt is serviced
NextUart ==
    \/ \E length \in 1..MaxTxLen, callback \in TxCallbacks :
          Tx_call(length, callback)
    \/ USART_TxIsr

\* the TX-empty interrupt is serviced whenever it is enabled
SpecUart == InitUart /\ [][NextUart]_vars /\ WF_vars(USART_TxIsr)

\* call lengths that fill the ring with no interrupt serviced
FillLens == {1, 2, 64, 255, 256, 257}

NextUartFill ==
    \E length \in FillLens : UART_transmitIT(length, "nullptr")

SpecUartFill == InitUart /\ [][NextUartFill]_vars

(***************************************************************************)
(* Properties of the UART transmit path                                    *)
(***************************************************************************)
\* a is a prefix of b
IsPrefix(a, b) ==
    /\ Len(a) <= Len(b)
    /\ \A i \in 1..Len(a) : a[i] = b[i]

\* the ring holds exactly the accepted bytes not yet written to the data
\* register, oldest at tail
RingHoldsUnsent ==
    /\ Len(wire) <= Len(accepted)
    /\ TxCount(m_txHead, m_txTail) = Len(accepted) - Len(wire)
    /\ \A j \in 1..(Len(accepted) - Len(wire)) :
          m_txBuffer[(m_txTail + j - 1) % UART_BUFFER_SIZE]
              = accepted[Len(wire) + j]

\* C15: across every interleaving of transmitIT calls and TX interrupts the
\* bytes written to the data register are a prefix of the bytes transmitIT
\* accepted, and the ring holds the rest in order: no accepted byte is
\* emitted twice, reordered or lost. Each byte the handler writes is the
\* next accepted byte, and only the handler moves tail, only transmitIT head.
C15_WireIsPrefix ==
    /\ [](IsPrefix(wire, accepted) /\ RingHoldsUnsent)
    /\ [][  /\ (m_txTail' # m_txTail) =>
                (/\ wire' = Append(wire, accepted[Len(wire) + 1])
                 /\ m_txHead' = m_txHead
                 /\ accepted' = accepted)
            /\ (m_txHead' # m_txHead) =>
                (/\ m_txTail' = m_txTail
                 /\ txStatus' = "Ok"
                 /\ IsPrefix(accepted, accepted')) ]_vars

\* transmitIT calls and TX interrupts interleaved around the end of the
\* array: head has wrapped, tail has not, and bytes are still queued
C15_Witness ==
    /\ Len(wire) >= 3
    /\ Len(accepted) > Len(wire)
    /\ m_txHead < m_txTail

\* C16: from an empty ring (TX interrupt disabled) with no TX interrupt
\* serviced, every transmitIT call that brings the bytes accepted so far to
\* at most UART_BUFFER_SIZE = 256 returns Ok and every call that would
\* exceed 256 returns NoMemory and stores nothing; the ring is empty iff
\* head = tail and full iff (head + 1) mod 256 = tail.
C16_FillTo256 ==
    /\ [][ \A length \in FillLens :
             UART_transmitIT(length, "nullptr") =>
               IF Len(accepted) + length <= 256
               THEN txStatus' = "Ok" /\ Len(accepted') = Len(accepted) + length
               ELSE txStatus' = "NoMemory" /\ accepted' = accepted
                    /\ m_txBuffer' = m_txBuffer /\ m_txHead' = m_txHead ]_vars
    /\ [](Len(accepted) <= 256)
    /\ []((m_txHead = m_txTail) <=> (Len(accepted) - Len(wire) = 0))
    /\ [](((m_txHead + 1) % 256 = m_txTail) <=>
             (TxFree(m_txHead, m_txTail) = 0))
    /\ []((TxFree(m_txHead, m_txTail) = 0) <=> (Len(accepted) = 256))

\* 256 bytes were accepted, the ring is full, and a further call was
\* refused
C16_Witness ==
    /\ Len(accepted) = 256
    /\ (m_txHead + 1) % 256 = m_txTail
    /\ txStatus = "NoMemory"

\* the wire has carried every accepted byte, the ring is empty, the TX
\* interrupt is disabled and the completion callback, if one is installed,
\* has run
TxDrained ==
    /\ wire = accepted
    /\ m_txHead = m_txTail
    /\ ~txeie
    /\ m_txCallback # "nullptr" => cbFired

\* C17: for any split of a byte sequence into accepted transmitIT calls, if
\* the TX-empty interrupt keeps being serviced the transmitter eventually
\* is drained (the wire has carried exactly the accepted bytes in order,
\* the ring is empty, the TX interrupt is disabled, the completion callback
\* has been invoked); the TX interrupt is enabled whenever accepted bytes
\* remain unsent.
C17_EventuallyDrained ==
    /\ [](wire # accepted => txeie)
    /\ (accepted # <<>>) ~> TxDrained

\* a stream split into several calls has drained and the callback has run
C17_Witness ==
    /\ TxDrained
    /\ cbFired
    /\ Len(accepted) >= 4
    /\ Len(accepted) < MaxTxBytes

(***************************************************************************)
(* GPIO pins and the EXTI dispatch table                                   *)
(***************************************************************************)
\* two GPIO objects on different ports
GpioObjs == {"pa", "pc"}

\* GPIO::m_port
GpioPort(o) == IF o = "pa" THEN "GPIOA" ELSE "GPIOC"

\* the (callback, context) each object registers; the one of "pc" is the
\* button of the blinky example: onButtonPress with the default context
GpioHandler(o) ==
    IF o = "pa" THEN <<"onPinA", "ctxA">> ELSE <<"onButtonPress", "nullptr">>

GpioModes == {"Input", "Output", "OutputOD", "Alternate", "Analog"}
GpioPulls == {"None", "Up", "Down"}
GpioSpeeds == {"Low", "VeryHigh"}
GpioAfs == {0, 7}
PinStates == {"Low", "High"}

ExtiLines == 0..15

\* pin indices given to the constructors: a line with a vector of its own,
\* one of the lines 5..9 and the button pin of the blinky example
PinIndexes == {3, 7, 13}

\* device interrupt number of an EXTI line: EXTI0..EXTI4 are interrupts
\* 6..10, lines 5..9 share interrupt 23, lines 10..15 share interrupt 40
ExtiIrq(line) ==
    IF line <= 4 THEN 6 + line ELSE IF line <= 9 THEN 23 ELSE 40

\* the handler symbol of that interrupt
ExtiHandlerName(line) ==
    IF line = 0 THEN "EXTI0_IRQHandler"
    ELSE IF line = 1 THEN "EXTI1_IRQHandler"
    ELSE IF line = 2 THEN "EXTI2_IRQHandler"
    ELSE IF line = 3 THEN "EXTI3_IRQHandler"
    ELSE IF line = 4 THEN "EXTI4_IRQHandler"
    ELSE IF line <= 9 THEN "EXTI9_5_IRQHandler"
    ELSE "EXTI15_10_IRQHandler"

\* g_pfnVectors has a slot for the interrupt of the line and the slot names
\* its handler
ExtiVectored(line) ==
    /\ 16 + ExtiIrq(line) < NumVectors
    /\ VectorAt(16 + ExtiIrq(line)) = ExtiHandlerName(line)

\* the CPU took an interrupt that has no slot in the vector table
CpuLost == isrLog # <<>> /\ isrLog[1][1] = "no_vector"

cfgVars == <<m_mode, pull, speed, af, locked>>
extiVars == <<extiTable, exticr, imr, pr, fired, isrLog, nCalls>>

\* everything but the pin indices, after reset and construction
GpioResetState ==
    /\ m_mode = [o \in GpioObjs |-> "Unconfigured"]
    /\ pull = [o \in GpioObjs |-> "None"]
    /\ speed = [o \in GpioObjs |-> "Low"]
    /\ af = [o \in GpioObjs |-> 0]
    /\ locked = [o \in GpioObjs |-> FALSE]
    /\ odr = [o \in GpioObjs |-> "Low"]
    /\ gStatus = "none"
    /\ readRet = "none"
    /\ gOp = <<>>
    /\ extiTable = [line \in ExtiLines |-> <<>>]
    /\ exticr = [line \in ExtiLines |-> "none"]
    /\ imr = {}
    /\ pr = {}
    /\ fired = -1
    /\ isrLog = <<>>
    /\ nCalls = 0

\* ---- configuration ----
\* setMode(mode): Permission after lock(); Output and OutputOD start with
\* speed Low and no pull
GPIO_setMode(o, mode) ==
    /\ ~CpuLost
    /\ gOp' = <<"setMode", o>>
    /\ IF locked[o]
       THEN /\ gStatus' = "Permission"
            /\ UNCHANGED <<m_mode, pull, speed>>
       ELSE /\ gStatus' = "Ok"
            /\ m_mode' = [m_mode EXCEPT ![o] = mode]
            /\ pull' = IF mode \in {"Output", "OutputOD"}
                       THEN [pull EXCEPT ![o] = "None"] ELSE pull
            /\ speed' = IF mode \in {"Output", "OutputOD"}
                        THEN [speed EXCEPT ![o] = "Low"] ELSE speed
    /\ UNCHANGED <<m_pin, af, locked, odr, readRet, extiVars>>
    /\ UNCHANGED notGpio

\* Mutant of GPIO_setPull: the lock is not consulted
GPIO_setPull_IgnoresLock(o, p_) ==
    /\ ~CpuLost
    /\ gOp' = <<"setPull", o>>
    /\ gStatus' = "Ok"
    /\ pull' = [pull EXCEPT ![o] = p_]
    /\ UNCHANGED <<m_pin, m_mode, speed, af, locked, odr, readRet, extiVars>>
    /\ UNCHANGED notGpio

\* setPull(pull)
GPIO_setPull(o, p_) ==
    /\ ~CpuLost
    /\ gOp' = <<"setPull", o>>
    /\ IF locked[o]
       THEN gStatus' = "Permission" /\ UNCHANGED pull
       ELSE gStatus' = "Ok" /\ pull' = [pull EXCEPT ![o] = p_]
    /\ UNCHANGED <<m_pin, m_mode, speed, af, locked, odr, readRet, extiVars>>
    /\ UNCHANGED notGpio

\* setSpeed(speed)
GPIO_setSpeed(o, s_) ==
    /\ ~CpuLost
    /\ gOp' = <<"setSpeed", o>>
    /\ IF locked[o]
       THEN gStatus' = "Permission" /\ UNCHANGED speed
       ELSE gStatus' = "Ok" /\ speed' = [speed EXCEPT ![o] = s_]
    /\ UNCHANGED <<m_pin, m_mode, pull, af, locked, odr, readRet, extiVars>>
    /\ UNCHANGED notGpio

\* setAlternateFunction(af)
GPIO_setAlternateFunction(o, n) ==
    /\ ~CpuLost
    /\ gOp' = <<"setAlternateFunction", o>>
    /\ IF locked[o]
       THEN gStatus' = "Permission" /\ UNCHANGED af
       ELSE gStatus' = "Ok" /\ af' = [af EXCEPT ![o] = n]
    /\ UNCHANGED <<m_pin, m_mode, pull, speed, locked, odr, readRet, extiVars>>
    /\ UNCHANGED notGpio

\* lock(): freezes the configuration of the pin until the next reset
GPIO_lock(o) ==
    /\ ~CpuLost
    /\ gOp' = <<"lock", o>>
    /\ gStatus' = "Ok"
    /\ locked' = [locked EXCEPT ![o] = TRUE]
    /\ UNCHANGED <<m_pin, m_mode, pull, speed, af, odr, readRet, extiVars>>
    /\ UNCHANGED notGpio

\* ---- level ----
\* write(state); setHigh() is write(High), setLow() is write(Low)
GPIO_write(o, state) ==
    /\ ~CpuLost
    /\ gOp' = <<"write", o>>
    /\ odr' = [odr EXCEPT ![o] = state]
    /\ UNCHANGED <<m_pin, cfgVars, gStatus, readRet, extiVars>>
    /\ UNCHANGED notGpio

GPIO_setHigh(o) == GPIO_write(o, "High")

GPIO_setLow(o) == GPIO_write(o, "Low")

\* toggle()
GPIO_toggle(o) ==
    /\ ~CpuLost
    /\ gOp' = <<"toggle", o>>
    /\ odr' = [odr EXCEPT ![o] = IF odr[o] = "High" THEN "Low" ELSE "High"]
    /\ UNCHANGED <<m_pin, cfgVars, gStatus, readRet, extiVars>>
    /\ UNCHANGED notGpio

\* read(): the state of the pin
GPIO_read(o) ==
    /\ ~CpuLost
    /\ gOp' = <<"read", o>>
    /\ readRet' = odr[o]
    /\ UNCHANGED <<m_pin, cfgVars, odr, gStatus, extiVars>>
    /\ UNCHANGED notGpio

\* a reset of the device followed by the construction of the same objects
GpioReset ==
    /\ ~CpuLost
    /\ gOp # <<>>
    /\ m_mode' = [o \in GpioObjs |-> "Unconfigured"]
    /\ pull' = [o \in GpioObjs |-> "None"]
    /\ speed' = [o \in GpioObjs |-> "Low"]
    /\ af' = [o \in GpioObjs |-> 0]
    /\ locked' = [o \in GpioObjs |-> FALSE]
    /\ odr' = [o \in GpioObjs |-> "Low"]
    /\ gStatus' = "none"
    /\ readRet' = "none"
    /\ gOp' = <<>>
    /\ extiTable' = [line \in ExtiLines |-> <<>>]
    /\ exticr' = [line \in ExtiLines |-> "none"]
    /\ imr' = {}
    /\ UNCHANGED <<m_pin, pr, fired, isrLog, nCalls>>
    /\ UNCHANGED notGpio

\* ---- EXTI ----
\* Mutant of GPIO_enableInterrupt: a line another port holds is taken over
GPIO_enableInterrupt_Overwrites(o, callback, context) ==
    /\ ~CpuLost
    /\ gOp' = <<"enableInterrupt", o>>
    /\ IF m_mode[o] # "Input"
       THEN /\ gStatus' = "InvalidArg"
            /\ UNCHANGED <<extiTable, exticr, imr>>
       ELSE /\ gStatus' = "Ok"
            /\ extiTable' = [extiTable EXCEPT ![m_pin[o]] = <<callback, context>>]
            /\ exticr' = [exticr EXCEPT ![m_pin[o]] = GpioPort(o)]
            /\ imr' = imr \cup {m_pin[o]}
    /\ UNCHANGED <<m_pin, cfgVars, odr, readRet, pr, fired, isrLog, nCalls>>
    /\ UNCHANGED notGpio

\* enableInterrupt(trigger, callback, context): InvalidArg unless the mode
\* is Input, Busy when another port holds the line of the pin index;
\* otherwise the line is routed to the port, (callback, context) installed
\* in the dispatch table and the line unmasked
GPIO_enableInterrupt(o, callback, context) ==
    /\ ~CpuLost
    /\ gOp' = <<"enableInterrupt", o>>
    /\ IF m_mode[o] # "Input"
       THEN /\ gStatus' = "InvalidArg"
            /\ UNCHANGED <<extiTable, exticr, imr>>
       ELSE IF extiTable[m_pin[o]] # <<>> /\ exticr[m_pin[o]] # GpioPort(o)
       THEN /\ gStatus' = "Busy"
            /\ UNCHANGED <<extiTable, exticr, imr>>
       ELSE /\ gStatus' = "Ok"
            /\ extiTable' = [extiTable EXCEPT ![m_pin[o]] = <<callback, context>>]
            /\ exticr' = [exticr EXCEPT ![m_pin[o]] = GpioPort(o)]
            /\ imr' = imr \cup {m_pin[o]}
    /\ UNCHANGED <<m_pin, cfgVars, odr, readRet, pr, fired, isrLog, nCalls>>
    /\ UNCHANGED notGpio

\* disableInterrupt(): masks the line of the pin index and clears its
\* dispatch entry
GPIO_disableInterrupt(o) ==
    /\ ~CpuLost
    /\ gOp' = <<"disableInterrupt", o>>
    /\ gStatus' = "Ok"
    /\ extiTable' = [extiTable EXCEPT ![m_pin[o]] = <<>>]
    /\ exticr' = [exticr EXCEPT ![m_pin[o]] = "none"]
    /\ imr' = imr \ {m_pin[o]}
    /\ UNCHANGED <<m_pin, cfgVars, odr, readRet, pr, fired, isrLog, nCalls>>
    /\ UNCHANGED notGpio

\* an edge on an EXTI line. A masked line raises nothing. An unmasked line
\* sets its pending bit and the interrupt is taken at once: when
\* g_pfnVectors has the slot, the handler clears the pending bit and then
\* invokes the installed callback with its context; when the interrupt
\* number lies beyond the table the CPU fetches the word behind it.
ExtiFire(line) ==
    /\ ~CpuLost
    /\ nCalls < MaxExtiCalls
    /\ fired' = line
    /\ IF line \notin imr
       THEN /\ isrLog' = <<>>
            /\ UNCHANGED <<pr, nCalls>>
       ELSE IF ExtiVectored(line)
       THEN /\ pr' = pr \ {line}
            /\ isrLog' =
                 IF extiTable[line] # <<>>
                 THEN << <<"clear_pending", line>>,
                         <<"call", extiTable[line][1], extiTable[line][2]>> >>
                 ELSE << <<"clear_pending", line>> >>
            /\ nCalls' = IF extiTable[line] # <<>> THEN nCalls + 1 ELSE nCalls
       ELSE /\ pr' = pr \cup {line}
            /\ isrLog' = << <<"no_vector", ExtiIrq(line)>> >>
            /\ UNCHANGED nCalls
    /\ UNCHANGED <<m_pin, cfgVars, odr, gStatus, readRet, gOp, extiTable,
                   exticr, imr>>
    /\ UNCHANGED notGpio

\* lines on which edges occur: the lines of the pins and line 0, which no
\* object uses
EdgeLines == PinIndexes \cup {0}

ExtiVarsInit ==
    /\ m_pin \in [GpioObjs -> PinIndexes]
    /\ GpioResetState

InitExti == ExtiVarsInit /\ BootParked /\ VecParked /\ SysParked
    /\ UartParked /\ AppParked

\* two objects switch between Input and Output and register and remove
\* their callbacks while edges arrive
NextExti ==
    \/ \E o \in GpioObjs, mode \in {"Input", "Output"} : GPIO_setMode(o, mode)
    \/ \E o \in GpioObjs :
          GPIO_enableInterrupt(o, GpioHandler(o)[1], GpioHandler(o)[2])
    \/ \E o \in GpioObjs : GPIO_disableInterrupt(o)
    \/ \E line \in EdgeLines : ExtiFire(line)

SpecExti == InitExti /\ [][NextExti]_vars

\* the pins of the blinky example: the LED on PA5, the button on PC13
LockVarsInit ==
    /\ m_pin = [o \in GpioObjs |-> IF o = "pa" THEN 5 ELSE 13]
    /\ GpioResetState

InitLock == LockVarsInit /\ BootParked /\ VecParked /\ SysParked
    /\ UartParked /\ AppParked

\* one pin is configured, driven, read, locked and reset in any order
NextLock ==
    \/ \E mode \in GpioModes : GPIO_setMode("pa", mode)
    \/ \E p_ \in GpioPulls : GPIO_setPull("pa", p_)
    \/ \E s_ \in GpioSpeeds : GPIO_setSpeed("pa", s_)
    \/ \E n \in GpioAfs : GPIO_setAlternateFunction("pa", n)
    \/ GPIO_lock("pa")
    \/ \E state \in PinStates : GPIO_write("pa", state)
    \/ GPIO_setHigh("pa")
    \/ GPIO_setLow("pa")
    \/ GPIO_toggle("pa")
    \/ GPIO_read("pa")
    \/ GpioReset

SpecLock == InitLock /\ [][NextLock]_vars

(***************************************************************************)
(* Properties of GPIO and EXTI                                             *)
(***************************************************************************)
\* the dispatch table holds, per line, nothing or the (callback, context)
\* of one object whose pin has that index and whose port the line is
\* routed to; a line without entry is masked and unrouted
OneEntryPerLine ==
    \A line \in ExtiLines :
        IF extiTable[line] = <<>>
        THEN exticr[line] = "none" /\ line \notin imr
        ELSE /\ Len(extiTable[line]) = 2
             /\ line \in imr
             /\ Cardinality({o \in GpioObjs :
                    /\ m_pin[o] = line
                    /\ GpioPort(o) = exticr[line]
                    /\ GpioHandler(o) = extiTable[line]}) = 1

\* C18: when two GPIO objects on different ports share a pin index and one
\* holds the EXTI line, enableInterrupt on the other (in Input mode, where
\* the call is legal) returns Busy and leaves the dispatch entry, the routing
\* and the mask of the line as they were; the dispatch table never holds
\* more than one (callback, context) pair per line 0..15.
C18_SecondGetsBusy ==
    /\ [][ \A o \in GpioObjs :
             (/\ GPIO_enableInterrupt(o, GpioHandler(o)[1], GpioHandler(o)[2])
              /\ m_mode[o] = "Input"
              /\ extiTable[m_pin[o]] # <<>>
              /\ exticr[m_pin[o]] # GpioPort(o))
             => (/\ gStatus' = "Busy"
                 /\ extiTable' = extiTable
                 /\ exticr' = exticr
                 /\ imr' = imr) ]_vars
    /\ [][ gStatus' \in {"Busy", "InvalidArg"} => extiTable' = extiTable ]_vars
    /\ []OneEntryPerLine

\* "pc" was refused while "pa", on the same pin index, keeps its entry
C18_Witness ==
    /\ m_pin["pa"] = m_pin["pc"]
    /\ gOp = <<"enableInterrupt", "pc">>
    /\ gStatus = "Busy"
    /\ m_mode["pc"] = "Input"
    /\ extiTable[m_pin["pa"]] = GpioHandler("pa")
    /\ exticr[m_pin["pa"]] = "GPIOA"

\* C19: enableInterrupt succeeds only on an Input-mode pin and installs
\* (cb, ctx) for the line of the pin index; each firing of a line that has
\* an entry clears the pending bit and then invokes the installed callback
\* exactly once with its context; firing a line without entry (after
\* disableInterrupt, or never registered) invokes no callback.
C19_FiringDispatches ==
    /\ [][ \A line \in EdgeLines :
             ExtiFire(line) =>
               IF extiTable[line] # <<>>
               THEN /\ isrLog' = << <<"clear_pending", line>>,
                                    <<"call", extiTable[line][1],
                                      extiTable[line][2]>> >>
                    /\ nCalls' = nCalls + 1
                    /\ line \notin pr'
               ELSE /\ isrLog' = <<>>
                    /\ nCalls' = nCalls ]_vars
    /\ [][ \A o \in GpioObjs :
             /\ (GPIO_enableInterrupt(o, GpioHandler(o)[1], GpioHandler(o)[2])
                   /\ gStatus' = "Ok")
                => (m_mode[o] = "Input" /\ extiTable'[m_pin[o]] = GpioHandler(o))
             /\ GPIO_disableInterrupt(o) => extiTable'[m_pin[o]] = <<>> ]_vars

\* C20: after lock() every configuration call (setMode, setPull, setSpeed,
\* setAlternateFunction) returns Permission and leaves the configuration
\* of the pin unchanged, and the lock holds until the next reset; the level
\* operations keep working on the locked pin: write(s) sets the state to s,
\* setHigh and setLow set it High and Low, toggle inverts it (High becomes
\* Low) and read returns it, so write(High) then read() yields High and
\* toggle() then read() yields Low.
C20_LockFreezesConfig ==
    /\ [][ locked["pa"] =>
             /\ \A mode \in GpioModes : GPIO_setMode("pa", mode) =>
                  (gStatus' = "Permission" /\ cfgVars' = cfgVars)
             /\ \A p_ \in GpioPulls : GPIO_setPull("pa", p_) =>
                  (gStatus' = "Permission" /\ cfgVars' = cfgVars)
             /\ \A s_ \in GpioSpeeds : GPIO_setSpeed("pa", s_) =>
                  (gStatus' = "Permission" /\ cfgVars' = cfgVars)
             /\ \A n \in GpioAfs : GPIO_setAlternateFunction("pa", n) =>
                  (gStatus' = "Permission" /\ cfgVars' = cfgVars)
             /\ (cfgVars' # cfgVars) => (GpioReset /\ ~locked'["pa"])
             /\ \A state \in PinStates : GPIO_write("pa", state) =>
                  odr'["pa"] = state
             /\ GPIO_setHigh("pa") => odr'["pa"] = "High"
             /\ GPIO_setLow("pa") => odr'["pa"] = "Low"
             /\ (GPIO_toggle("pa") /\ odr["pa"] = "High") => odr'["pa"] = "Low"
             /\ (GPIO_toggle("pa") /\ odr["pa"] = "Low") => odr'["pa"] = "High"
             /\ GPIO_read("pa") => (readRet' = odr["pa"] /\ odr' = odr) ]_vars
    /\ [](gStatus = "Permission" => locked["pa"])

\* on a locked pin a configuration call was refused and, later, read()
\* returned Low after the level had been driven
C20_Witness ==
    /\ locked["pa"]
    /\ gStatus = "Permission"
    /\ m_mode["pa"] = "Output"
    /\ speed["pa"] = "VeryHigh"
    /\ gOp = <<"read", "pa">>
    /\ readRet = "Low"
    /\ odr["pa"] = "Low"

(***************************************************************************)
(* The applications: what blinky.cpp and main.cpp share                    *)
(***************************************************************************)
\* groups of application variables, for the UNCHANGED clauses
hwVars == <<mStatus, led, button, uart>>
flagVars == <<buttonPressed, blinkRate, owed>>
fmtVars == <<buf, temp, idx, tempIdx, rate, fmtWrites>>
waitVars == <<waitMs, waited>>
loopVars == <<iters, nToggles, nPrints>>

DigitChars == <<"0", "1", "2", "3", "4", "5", "6", "7", "8", "9">>

\* '0' + (v % 10)
DigitChar(v) == DigitChars[(v % 10) + 1]

\* what an element of a local array holds before it is written
StaleChar == "?"

\* char a[n]; without an initialiser
CharArray(n) == [i \in 0..(n - 1) |-> StaleChar]

\* A store past the end of a local array is undefined behaviour.  The byte
\* lands in whatever the compiler placed behind the array: padding or a
\* dead local (victim "none"), or the low byte of a live local of main
\* (rateIndex in blinky.cpp, counter in main.cpp).  The stored byte is
\* always the terminating NUL or an ASCII character; only the NUL case is
\* reachable and it zeroes the byte.
OutOfBoundsStore(victims) ==
    \E v \in victims :
        /\ rateIndex' = IF v = "rateIndex" THEN 0 ELSE rateIndex
        /\ counter' = IF v = "counter"
                      THEN <<counter[1], counter[2] - (counter[2] % 256)>>
                      ELSE counter

\* buf[idx] = c
StoreBuf(c, victims) ==
    /\ fmtWrites' = Append(fmtWrites, <<"buf", idx, c>>)
    /\ IF idx \in DOMAIN buf
       THEN /\ buf' = [buf EXCEPT ![idx] = c]
            /\ UNCHANGED <<rateIndex, counter>>
       ELSE /\ buf' = buf
            /\ OutOfBoundsStore(victims)

\* temp[tempIdx] = c
StoreTemp(c, victims) ==
    /\ fmtWrites' = Append(fmtWrites, <<"temp", tempIdx, c>>)
    /\ IF tempIdx \in DOMAIN temp
       THEN /\ temp' = [temp EXCEPT ![tempIdx] = c]
            /\ UNCHANGED <<rateIndex, counter>>
       ELSE /\ temp' = temp
            /\ OutOfBoundsStore(victims)

\* if (v == 0) { buf[idx++] = '0'; } else { char temp[n]; int tempIdx = 0;
Fmt_testZero(n, victims) ==
    /\ mpc = "fmt_zero"
    /\ IF rate = 0
       THEN /\ StoreBuf("0", victims)
            /\ idx' = idx + 1
            /\ mpc' = "fmt_put1"
            /\ UNCHANGED <<temp, tempIdx>>
       ELSE /\ temp' = CharArray(n)
            /\ tempIdx' = 0
            /\ mpc' = "fmt_digits"
            /\ UNCHANGED <<buf, idx, fmtWrites, rateIndex, counter>>
    /\ UNCHANGED <<rate, printed, hwVars, flagVars, waitVars, loopVars>>
    /\ UNCHANGED notApp

\* while (v > 0) { temp[tempIdx++] = '0' + (v % 10); v /= 10; }
Fmt_digit(victims) ==
    /\ mpc = "fmt_digits"
    /\ IF rate > 0
       THEN /\ StoreTemp(DigitChar(rate), victims)
            /\ tempIdx' = tempIdx + 1
            /\ rate' = rate \div 10
            /\ mpc' = "fmt_digits"
       ELSE /\ mpc' = "fmt_reverse"
            /\ UNCHANGED <<temp, tempIdx, rate, fmtWrites, rateIndex, counter>>
    /\ UNCHANGED <<buf, idx, printed, hwVars, flagVars, waitVars, loopVars>>
    /\ UNCHANGED notApp

\* while (tempIdx > 0) { buf[idx++] = temp[--tempIdx]; }
Fmt_reverse(victims) ==
    /\ mpc = "fmt_reverse"
    /\ IF tempIdx > 0
       THEN /\ tempIdx' = tempIdx - 1
            /\ StoreBuf(IF tempIdx - 1 \in DOMAIN temp
                        THEN temp[tempIdx - 1] ELSE StaleChar, victims)
            /\ idx' = idx + 1
            /\ mpc' = "fmt_reverse"
       ELSE /\ mpc' = "fmt_put1"
            /\ UNCHANGED <<buf, idx, tempIdx, fmtWrites, rateIndex, counter>>
    /\ UNCHANGED <<temp, rate, printed, hwVars, flagVars, waitVars, loopVars>>
    /\ UNCHANGED notApp

\* buf[idx++] = c; one character of the unit and line end
Fmt_put(from, to, c, victims) ==
    /\ mpc = from
    /\ StoreBuf(c, victims)
    /\ idx' = idx + 1
    /\ mpc' = to
    /\ UNCHANGED <<temp, tempIdx, rate, printed, hwVars, flagVars, waitVars,
                   loopVars>>
    /\ UNCHANGED notApp

\* buf[idx] = '\0';
Fmt_putNul(from, victims) ==
    /\ mpc = from
    /\ StoreBuf("NUL", victims)
    /\ mpc' = "fmt_print"
    /\ UNCHANGED <<idx, temp, tempIdx, rate, printed, hwVars, flagVars,
                   waitVars, loopVars>>
    /\ UNCHANGED notApp

\* the characters print(buf) sends: those before the first NUL; with no NUL
\* inside the array the read runs to its end and past it
CString(b) ==
    LET nuls == {i \in DOMAIN b : b[i] = "NUL"}
        n == IF nuls = {} THEN Cardinality(DOMAIN b)
             ELSE CHOOSE i \in nuls : \A j \in nuls : i <= j
    IN  [k \in 1..n |-> b[k - 1]]

\* System::delayMs(ms) as main sees it: start = s_tickCount, then the loop
\* while ((s_tickCount - start) < ms) nop; waited is s_tickCount - start
App_delayMs(from, test, ms) ==
    /\ mpc = from
    /\ waitMs' = ms
    /\ waited' = 0
    /\ mpc' = test
    /\ UNCHANGED <<rateIndex, counter, printed, hwVars, flagVars, fmtVars,
                   loopVars>>
    /\ UNCHANGED notApp

\* one evaluation of (s_tickCount - start) < ms
App_delayMs_test(test, nop, ret) ==
    /\ mpc = test
    /\ mpc' = IF waited < waitMs THEN nop ELSE ret
    /\ UNCHANGED <<rateIndex, counter, printed, hwVars, flagVars, fmtVars,
                   waitVars, loopVars>>
    /\ UNCHANGED notApp

\* the loop body: nop
App_delayMs_nop(test, nop) ==
    /\ mpc = nop
    /\ mpc' = test
    /\ UNCHANGED <<rateIndex, counter, printed, hwVars, flagVars, fmtVars,
                   waitVars, loopVars>>
    /\ UNCHANGED notApp

\* SysTick_Handler during a wait: s_tickCount++, so s_tickCount - start
\* grows by one.  SysTick is armed once System::init() has run.  Ticks
\* outside a wait and after the wait is over change nothing main reads
\* here and are left out.
App_SysTick(waits) ==
    /\ mStatus = "Ok"
    /\ mpc \in waits
    /\ waited < waitMs
    /\ waited' = waited + 1
    /\ UNCHANGED <<mpc, rateIndex, counter, printed, waitMs, hwVars, flagVars,
                   fmtVars, loopVars>>
    /\ UNCHANGED notApp

(***************************************************************************)
(* examples/blinky.cpp                                                     *)
(***************************************************************************)
LED_PIN == 5
BTN_PIN == 13

\* const u32 rates[] = {500, 250, 100, 1000};
rates == <<500, 250, 100, 1000>>

\* const u8 numRates = sizeof(rates) / sizeof(rates[0]);
numRates == Len(rates)

\* char buf[8]; char temp[8];
BlinkyBufSize == 8

\* what may lie behind buf in main's frame of blinky.cpp
BlinkyVictims == {"none", "rateIndex"}

BlinkyWaits == {"delayMs_test", "delayMs_nop"}

BlinkyVarsInit ==
    /\ mpc = "start"
    /\ mStatus = "none"
    /\ led = <<>>
    /\ button = <<>>
    /\ uart = "none"
    /\ buttonPressed = FALSE
    /\ blinkRate = 500
    /\ rateIndex = 0
    /\ counter = <<0, 0>>
    /\ buf = <<>>
    /\ temp = <<>>
    /\ idx = 0
    /\ tempIdx = 0
    /\ rate = 0
    /\ fmtWrites = <<>>
    /\ printed = <<>>
    /\ waitMs = 0
    /\ waited = 0
    /\ owed = FALSE
    /\ iters = 0
    /\ nToggles = 0
    /\ nPrints = 0

\* System::init(); the result is not looked at
Blinky_init ==
    /\ mpc = "start"
    /\ mStatus' = "Ok"
    /\ mpc' = "config"
    /\ UNCHANGED <<led, button, uart, rateIndex, counter, printed, flagVars,
                   fmtVars, waitVars, loopVars>>
    /\ UNCHANGED notApp

\* GPIO led(LED_PORT, LED_PIN); setMode(Output); setSpeed(Low);
\* GPIO button(BTN_PORT, BTN_PIN); setMode(Input); setPull(Up);
\* enableInterrupt(Falling, onButtonPress);
Blinky_configure ==
    /\ mpc = "config"
    /\ led' = [port |-> "GPIOA", pin |-> LED_PIN, mode |-> "Output",
               speed |-> "Low", level |-> "Low"]
    /\ button' = [port |-> "GPIOC", pin |-> BTN_PIN, mode |-> "Input",
                  pull |-> "Up", callback |-> "onButtonPress"]
    /\ mpc' = "uart"
    /\ UNCHANGED <<mStatus, uart, rateIndex, counter, printed, flagVars,
                   fmtVars, waitVars, loopVars>>
    /\ UNCHANGED notApp

\* UART debug(UART_INSTANCE); debug.init(config); the banner;
\* u8 rateIndex = 0;
Blinky_startUart ==
    /\ mpc = "uart"
    /\ uart' = "ready"
    /\ rateIndex' = 0
    /\ mpc' = "toggle"
    /\ UNCHANGED <<mStatus, led, button, counter, printed, flagVars, fmtVars,
                   waitVars, loopVars>>
    /\ UNCHANGED notApp

\* led.toggle();
Blinky_toggle ==
    /\ mpc = "toggle"
    /\ led' = [led EXCEPT !.level = IF @ = "Low" THEN "High" ELSE "Low"]
    /\ mpc' = "check"
    /\ UNCHANGED <<mStatus, button, uart, rateIndex, counter, printed,
                   flagVars, fmtVars, waitVars, loopVars>>
    /\ UNCHANGED notApp

\* if (buttonPressed): one read of the volatile flag
Blinky_check ==
    /\ mpc = "check"
    /\ mpc' = IF buttonPressed THEN "clear" ELSE "delay"
    /\ UNCHANGED <<rateIndex, counter, printed, hwVars, flagVars, fmtVars,
                   waitVars, loopVars>>
    /\ UNCHANGED notApp

\* buttonPressed = false;
Blinky_clear ==
    /\ mpc = "clear"
    /\ buttonPressed' = FALSE
    /\ mpc' = "cycle"
    /\ UNCHANGED <<blinkRate, owed, rateIndex, counter, printed, hwVars,
                   fmtVars, waitVars, loopVars>>
    /\ UNCHANGED notApp

\* rateIndex = (rateIndex + 1) % numRates; blinkRate = rates[rateIndex];
Blinky_cycle ==
    /\ mpc = "cycle"
    /\ rateIndex' = (rateIndex + 1) % numRates
    /\ blinkRate' = rates[rateIndex' + 1]
    /\ owed' = FALSE
    /\ mpc' = "fmt_begin"
    /\ UNCHANGED <<buttonPressed, counter, printed, hwVars, fmtVars, waitVars,
                   loopVars>>
    /\ UNCHANGED notApp

\* debug.print("Blink rate: "); char buf[8]; u32 rate = blinkRate;
\* int idx = 0;
Blinky_fmtBegin ==
    /\ mpc = "fmt_begin"
    /\ buf' = CharArray(BlinkyBufSize)
    /\ rate' = blinkRate
    /\ idx' = 0
    /\ fmtWrites' = <<>>
    /\ mpc' = "fmt_zero"
    /\ UNCHANGED <<temp, tempIdx, rateIndex, counter, printed, hwVars,
                   flagVars, waitVars, loopVars>>
    /\ UNCHANGED notApp

\* debug.print(buf);
Blinky_print ==
    /\ mpc = "fmt_print"
    /\ printed' = CString(buf)
    /\ mpc' = "delay"
    /\ UNCHANGED <<rateIndex, counter, hwVars, flagVars, fmtVars, waitVars,
                   loopVars>>
    /\ UNCHANGED notApp

\* void onButtonPress(void*): buttonPressed = true; it runs as the button's
\* interrupt callback once enableInterrupt has installed it, at any point
\* of main
onButtonPress ==
    /\ button # <<>>
    /\ buttonPressed' = TRUE
    /\ owed' = TRUE
    /\ UNCHANGED <<mpc, blinkRate, rateIndex, counter, printed, hwVars,
                   fmtVars, waitVars, loopVars>>
    /\ UNCHANGED notApp

\* the steps of main in blinky.cpp
BlinkyMain ==
    \/ Blinky_init \/ Blinky_configure \/ Blinky_startUart
    \/ Blinky_toggle \/ Blinky_check \/ Blinky_clear \/ Blinky_cycle
    \/ Blinky_fmtBegin
    \/ Fmt_testZero(BlinkyBufSize, BlinkyVictims)
    \/ Fmt_digit(BlinkyVictims)
    \/ Fmt_reverse(BlinkyVictims)
    \/ Fmt_put("fmt_put1", "fmt_put2", "m", BlinkyVictims)
    \/ Fmt_put("fmt_put2", "fmt_put3", "s", BlinkyVictims)
    \/ Fmt_put("fmt_put3", "fmt_put4", "CR", BlinkyVictims)
    \/ Fmt_put("fmt_put4", "fmt_nul", "LF", BlinkyVictims)
    \/ Fmt_putNul("fmt_nul", BlinkyVictims)
    \/ Blinky_print
    \/ App_delayMs("delay", "delayMs_test", blinkRate)
    \/ App_delayMs_test("delayMs_test", "delayMs_nop", "toggle")
    \/ App_delayMs_nop("delayMs_test", "delayMs_nop")

NextBlinky ==
    \/ BlinkyMain
    \/ App_SysTick(BlinkyWaits)
    \/ onButtonPress

InitBlinky ==
    /\ BlinkyVarsInit
    /\ BootParked /\ VecParked /\ SysParked /\ UartParked /\ GpioParked

\* main keeps executing and SysTick keeps ticking; the button is pressed
\* whenever its user likes
SpecBlinky ==
    /\ InitBlinky
    /\ [][NextBlinky]_vars
    /\ WF_vars(BlinkyMain)
    /\ WF_vars(App_SysTick(BlinkyWaits))

\* the delay that follows r in the cycle 500 -> 250 -> 100 -> 1000 -> 500
NextRate(r) ==
    IF r = 500 THEN 250 ELSE IF r = 250 THEN 100
    ELSE IF r = 100 THEN 1000 ELSE 500

\* C21: the blink delay starts at 500 ms; an iteration that observes
\* buttonPressed clears the flag and advances the delay one step in the
\* cycle 500 -> 250 -> 100 -> 1000 -> 500; an iteration that does not
\* observe the flag leaves the delay unchanged; with the ISR setting the
\* flag at any point of the loop every press is eventually followed by a
\* rate change.
C21_PressCyclesRate ==
    /\ [](mpc = "start" => blinkRate = 500)
    /\ [][  /\ (mpc = "check" /\ mpc' # mpc) =>
                 (mpc' = IF buttonPressed THEN "clear" ELSE "delay")
            /\ (mpc = "clear" /\ mpc' # mpc) => ~buttonPressed'
            /\ (mpc = "cycle" /\ mpc' # mpc) =>
                 (blinkRate' = NextRate(blinkRate))
            /\ (blinkRate' # blinkRate) => (mpc = "cycle") ]_vars
    /\ [](mpc \in BlinkyWaits => waitMs = blinkRate)
    /\ owed ~> ~owed

\* the indexes of array a written for the current message
WrittenIndexes(a) ==
    {fmtWrites[k][2] : k \in {j \in 1..Len(fmtWrites) : fmtWrites[j][1] = a}}

\* C22: for every rate of the table, every store made while the blink-rate
\* message is formatted (digits, 'm', 's', CR, LF and the terminating NUL)
\* lands at an index 0..7 of buf and at an index 0..7 of temp.
C22_BlinkyWritesInBounds ==
    /\ WrittenIndexes("buf") \subseteq 0..(BlinkyBufSize - 1)
    /\ WrittenIndexes("temp") \subseteq 0..(BlinkyBufSize - 1)

(***************************************************************************)
(* src/main.cpp                                                            *)
(***************************************************************************)
MaxMainIters == 4

\* char buf[16]; char temp[16];
MainBufSize == 16

\* what may lie behind buf in main's frame of main.cpp
MainVictims == {"none", "counter"}

\* Status values main.cpp may get back from System::init() and from
\* debug.init(): main tests both results.  System::init() of system.cpp
\* returns Ok only; the failing value exercises the branch main.cpp has
\* for it.
InitResults == {"Ok", "Error"}

\* values of s_tickCount read by the heartbeat: 0, the values around the
\* first whole second, a six-digit count and the largest u32
HeartbeatTicks ==
    {<<0, 0>>, <<0, 999>>, <<0, 1000>>, <<15, 16959>>, <<W16 - 1, W16 - 1>>}

\* a u32 held as <<high, low>> as a number; used for values below 2^31
U32Value(a) == a[1] * W16 + a[2]

MainWaits == {"d100_test", "d100_nop", "d500_test", "d500_nop"}

\* the positions inside while (true) of lines 67-101
MainLoopPcs ==
    {"loop_toggle", "count", "fmt_begin", "fmt_zero", "fmt_digits",
     "fmt_reverse", "fmt_put1", "fmt_put2", "fmt_put3", "fmt_nul",
     "fmt_print", "delay", "d500_test", "d500_nop"}

\* entry of main, or the top of the main loop after 2^32 - 2 iterations
\* (the counter is about to wrap)
MainVarsInit ==
    /\ \/ /\ mpc = "start"
          /\ mStatus = "none"
          /\ led = <<>>
          /\ uart = "none"
          /\ counter = <<0, 0>>
       \/ /\ mpc = "loop_toggle"
          /\ mStatus = "Ok"
          /\ led = [port |-> "GPIOA", pin |-> LED_PIN, mode |-> "Output",
                    speed |-> "Low", level |-> "Low"]
          /\ uart = "ready"
          /\ counter = <<W16 - 1, W16 - 2>>
    /\ button = <<>>
    /\ buttonPressed = FALSE
    /\ blinkRate = 0
    /\ rateIndex = 0
    /\ buf = <<>>
    /\ temp = <<>>
    /\ idx = 0
    /\ tempIdx = 0
    /\ rate = 0
    /\ fmtWrites = <<>>
    /\ printed = <<>>
    /\ waitMs = 0
    /\ waited = 0
    /\ owed = FALSE
    /\ iters = 0
    /\ nToggles = 0
    /\ nPrints = 0

\* if (System::init() != Status::Ok) { while (true) { } }
Main_init ==
    /\ mpc = "start"
    /\ \E r \in InitResults :
        /\ mStatus' = r
        /\ mpc' = IF r # "Ok" THEN "error_loop" ELSE "led"
    /\ UNCHANGED <<led, button, uart, rateIndex, counter, printed, flagVars,
                   fmtVars, waitVars, loopVars>>
    /\ UNCHANGED notApp

\* while (true) { /* Error handler */ }
Main_errorLoop ==
    /\ mpc = "error_loop"
    /\ UNCHANGED appVars
    /\ UNCHANGED notApp

\* GPIO led(LED_PORT, LED_PIN); setMode(Output); setSpeed(Low);
\* setPull(None);
Main_configLed ==
    /\ mpc = "led"
    /\ led' = [port |-> "GPIOA", pin |-> LED_PIN, mode |-> "Output",
               speed |-> "Low", level |-> "Low"]
    /\ mpc' = "uart"
    /\ UNCHANGED <<mStatus, button, uart, rateIndex, counter, printed,
                   flagVars, fmtVars, waitVars, loopVars>>
    /\ UNCHANGED notApp

\* UART debug(DEBUG_UART); if (debug.init(uartConfig) != Status::Ok) ...
\* else the startup message and u32 counter = 0;
Main_uartInit ==
    /\ mpc = "uart"
    /\ \E r \in InitResults :
        /\ uart' = IF r = "Ok" THEN "ready" ELSE "failed"
        /\ mpc' = IF r = "Ok" THEN "loop_toggle" ELSE "fail_toggle"
    /\ counter' = <<0, 0>>
    /\ UNCHANGED <<mStatus, led, button, rateIndex, printed, flagVars,
                   fmtVars, waitVars, loopVars>>
    /\ UNCHANGED notApp

\* the loop after a failed debug.init: led.toggle();
Main_failToggle ==
    /\ mpc = "fail_toggle"
    /\ led' = [led EXCEPT !.level = IF @ = "Low" THEN "High" ELSE "Low"]
    /\ mpc' = "fail_delay"
    /\ UNCHANGED <<mStatus, button, uart, rateIndex, counter, printed,
                   flagVars, fmtVars, waitVars, loopVars>>
    /\ UNCHANGED notApp

\* led.toggle(); first statement of the main loop
Main_toggle ==
    /\ mpc = "loop_toggle"
    /\ iters < MaxMainIters
    /\ led' = [led EXCEPT !.level = IF @ = "Low" THEN "High" ELSE "Low"]
    /\ nToggles' = nToggles + 1
    /\ mpc' = "count"
    /\ UNCHANGED <<mStatus, button, uart, rateIndex, counter, printed,
                   iters, nPrints, flagVars, fmtVars, waitVars>>
    /\ UNCHANGED notApp

\* counter++; if (counter % 2 == 0)
Main_count ==
    /\ mpc = "count"
    /\ counter' = U32Inc(counter)
    /\ iters' = iters + 1
    /\ mpc' = IF counter'[2] % 2 = 0 THEN "fmt_begin" ELSE "delay"
    /\ UNCHANGED <<rateIndex, printed, nToggles, nPrints, hwVars, flagVars,
                   fmtVars, waitVars>>
    /\ UNCHANGED notApp

\* Mutant of Main_fmtBegin: buf has the 8 elements of the blinky example
Main_fmtBegin_Small ==
    /\ mpc = "fmt_begin"
    /\ \E now \in HeartbeatTicks :
        rate' = U32Value(U32DivN(now, 1000))
    /\ buf' = CharArray(8)
    /\ idx' = 0
    /\ fmtWrites' = <<>>
    /\ mpc' = "fmt_zero"
    /\ UNCHANGED <<temp, tempIdx, rateIndex, counter, printed, hwVars,
                   flagVars, waitVars, loopVars>>
    /\ UNCHANGED notApp

\* debug.print("Heartbeat: "); char buf[16];
\* u32 ticks = System::getTicks() / 1000; int idx = 0;
Main_fmtBegin ==
    /\ mpc = "fmt_begin"
    /\ \E now \in HeartbeatTicks :
        rate' = U32Value(U32DivN(now, 1000))
    /\ buf' = CharArray(MainBufSize)
    /\ idx' = 0
    /\ fmtWrites' = <<>>
    /\ mpc' = "fmt_zero"
    /\ UNCHANGED <<temp, tempIdx, rateIndex, counter, printed, hwVars,
                   flagVars, waitVars, loopVars>>
    /\ UNCHANGED notApp

\* debug.print(buf);
Main_print ==
    /\ mpc = "fmt_print"
    /\ printed' = CString(buf)
    /\ nPrints' = nPrints + 1
    /\ mpc' = "delay"
    /\ UNCHANGED <<rateIndex, counter, iters, nToggles, hwVars, flagVars,
                   fmtVars, waitVars>>
    /\ UNCHANGED notApp

NextMain ==
    \/ Main_init \/ Main_errorLoop \/ Main_configLed \/ Main_uartInit
    \/ Main_failToggle
    \/ App_delayMs("fail_delay", "d100_test", 100)
    \/ App_delayMs_test("d100_test", "d100_nop", "fail_toggle")
    \/ App_delayMs_nop("d100_test", "d100_nop")
    \/ Main_toggle \/ Main_count \/ Main_fmtBegin
    \/ Fmt_testZero(MainBufSize, MainVictims)
    \/ Fmt_digit(MainVictims)
    \/ Fmt_reverse(MainVictims)
    \/ Fmt_put("fmt_put1", "fmt_put2", "s", MainVictims)
    \/ Fmt_put("fmt_put2", "fmt_put3", "CR", MainVictims)
    \/ Fmt_put("fmt_put3", "fmt_nul", "LF", MainVictims)
    \/ Fmt_putNul("fmt_nul", MainVictims)
    \/ Main_print
    \/ App_delayMs("delay", "d500_test", 500)
    \/ App_delayMs_test("d500_test", "d500_nop", "loop_toggle")
    \/ App_delayMs_nop("d500_test", "d500_nop")
    \/ App_SysTick(MainWaits)

InitMain ==
    /\ MainVarsInit
    /\ BootParked /\ VecParked /\ SysParked /\ UartParked /\ GpioParked

SpecMain == InitMain /\ [][NextMain]_vars

\* C26: when System::init() does not return Ok, main never configures the
\* LED or the UART and never leaves the error loop; otherwise the main loop
\* is never left, the LED is toggled once per iteration, the heartbeat is
\* printed on every second iteration, and for every u32 value of getTicks()
\* every store made while the heartbeat text is formatted lands inside the
\* 16 elements of buf and of temp.
C26_MainLoop ==
    /\ [](mStatus \notin {"none", "Ok"} =>
             (mpc = "error_loop" /\ led = <<>> /\ uart = "none"))
    /\ [][  /\ (mpc \in MainLoopPcs) => (mpc' \in MainLoopPcs)
            /\ (mpc \in MainLoopPcs) =>
                 ((led'.level # led.level) <=> (mpc = "loop_toggle"))
            /\ (mpc = "count" /\ mpc' # mpc) =>
                 (mpc' = IF iters' % 2 = 0 THEN "fmt_begin" ELSE "delay")
            /\ (nPrints' # nPrints) =>
                 (nPrints' = nPrints + 1 /\ iters % 2 = 0
                  /\ printed' = CString(buf)) ]_vars
    /\ [](mpc = "loop_toggle" =>
             (/\ nToggles = iters
              /\ nPrints = iters \div 2
              /\ led.level = IF iters % 2 = 0 THEN "Low" ELSE "High"))
    /\ [](mpc \in MainLoopPcs \ {"loop_toggle"} => nToggles \in {iters, iters + 1})
    /\ [](WrittenIndexes("buf") \subseteq 0..(MainBufSize - 1))
    /\ [](WrittenIndexes("temp") \subseteq 0..(MainBufSize - 1))
    /\ [](mpc = "delay" /\ iters % 2 = 0 /\ iters > 0 =>
             (Len(printed) <= MainBufSize - 1
              /\ printed[Len(printed)] = "LF"))

\* the second iteration printed the largest tick count, 4294967 s, with the
\* counter wrapped to 0
C26_Witness ==
    /\ mpc = "delay"
    /\ counter = <<0, 0>>
    /\ iters = 2
    /\ nToggles = 2
    /\ nPrints = 1
    /\ printed = <<"4", "2", "9", "4", "9", "6", "7", "s", "CR", "LF">>
    /\ fmtWrites[Len(fmtWrites)] = <<"buf", 10, "NUL">>

(***************************************************************************)
(* delayMs without a tick source                                           *)
(***************************************************************************)
\* delayMs(ms) with ms > 0 is waiting and no tick arrived since it read start
WaitingUnserved ==
    /\ pc \in DelayMsPcs
    /\ dm_ms > 0
    /\ s_tickCount = dm_start

\* C23: delayMs(ms) with ms > 0 returns only after SysTick interrupts were
\* delivered during the wait; while interrupts are masked (a live
\* CriticalSection guard) or SysTick is not armed (before System::init()),
\* the tick counter does not advance and the wait is not left.
C23_DelayNeedsTicks ==
    /\ [][ (pc \in DelayMsPcs /\ dm_ms > 0 /\ pc' = "idle") =>
             (s_tickCount # dm_start /\ ~DelayMsWaiting(s_tickCount, dm_start, dm_ms)) ]_vars
    /\ [][ (WaitingUnserved /\ (primask = 1 \/ ~SysTickArmed)) =>
             (/\ WaitingUnserved'
              /\ s_tickCount' = s_tickCount
              /\ primask' = primask
              /\ guards' = guards
              /\ regs' = regs) ]_vars
    /\ [](WaitingUnserved /\ (primask = 1 \/ ~SysTickArmed) =>
             ~ENABLED SysTick_Handler)

\* delayMs was called inside a critical section after init and is spinning
C23_Witness ==
    /\ pc = "delayMs_nop"
    /\ dm_ms > 0
    /\ guards # <<>>
    /\ primask = 1
    /\ SysTickArmed
    /\ s_tickCount = dm_start

(***************************************************************************)
(* The addresses Reset_Handler writes                                      *)
(***************************************************************************)
InData(a) == layout.sdata <= a /\ a < layout.edata
InBss(a) == layout.sbss <= a /\ a < layout.ebss

\* the four byte addresses of the word store a step of a loop makes
StoredBytes == dst..(dst + 3)

\* C24: Reset_Handler writes only to addresses inside [_sdata, _edata) and
\* [_sbss, _ebss), for every placement of the linker symbols including
\* region lengths that are not a multiple of 4 and empty regions; an empty
\* region gets no store.
C24_WritesInsideRegions ==
    /\ [][  /\ (bpc = "copy" /\ nCopied' = nCopied + 1) =>
                 (\A a \in StoredBytes : InData(a))
            /\ (bpc = "bss" /\ nZeroed' = nZeroed + 1) =>
                 (\A a \in StoredBytes : InBss(a))
            /\ \A a \in DOMAIN ram :
                 (ram'[a] # ram[a]) => (InData(a) \/ InBss(a)) ]_vars
    /\ [](layout.edata = layout.sdata => nCopied = 0)
    /\ [](layout.ebss = layout.sbss => nZeroed = 0)

(***************************************************************************)
(* The vector slots of the EXTI lines                                      *)
(***************************************************************************)
\* the slot of g_pfnVectors the interrupt of an EXTI line is fetched from
ExtiSlot(line) == 16 + ExtiIrq(line)

\* C25: every EXTI line 0..15 has a device vector slot in g_pfnVectors
\* through which its interrupt reaches an overridable handler (lines 0-4
\* their own, lines 5-9 EXTI9_5, lines 10-15 their shared vector), so the
\* interrupt installed on pin 13 by the blinky example has an ISR entry.
C25_ExtiLinesHaveVectors ==
    /\ \A line \in ExtiLines :
          /\ ExtiSlot(line) < NumVectors
          /\ VectorAt(ExtiSlot(line)) = ExtiHandlerName(line)
          /\ ExtiHandlerName(line) \in WeakHandlers
          /\ vtable[ExtiSlot(line)] = Link(ExtiHandlerName(line), overridden)
    /\ ExtiVectored(BTN_PIN)

==============================================================================
